---- MODULE Spec2Model ----
(***************************************************************************)
(* A model of movepool_dashboard.py: the value normaliser (clean_value),   *)
(* the availability extractor (game_available), the table shape            *)
(* classifier, the section parsers and the multi-game resolver             *)
(* (fetch_learnset_multi_game) with the module-level result handling.      *)
(*                                                                         *)
(* Text is modelled as a sequence of one-character strings, so that        *)
(* substring tests, case conversion and the regular expressions of the     *)
(* source are computed character by character.  The em dash U+2014 of the  *)
(* source is written "-" here (see Dash).                                  *)
(***************************************************************************)
EXTENDS Integers, Sequences, FiniteSets, TLC

VARIABLES
    pc,       \* position of the running scenario
    val,      \* clean_value: the argument
    once,     \* clean_value(val)
    twice,    \* clean_value(clean_value(val))
    gen,      \* the generation, 1..8
    cell,     \* game_available: the table cell
    avail,    \* game_available(cell, gen)
    table,    \* the table element handed to a section parser
    shape,    \* the header row, move column and category flag found in it
    response, \* the response to the request for the learnset page
    document, \* the parsed page (soup)
    selected_gen,  \* the generation chosen in the sidebar
    result,   \* what fetch_learnset_multi_game returned, and by which branch
    displayed,     \* the section mapping that is displayed (sections)
    shown,    \* what the dashboard shows below the header
    show_descriptions,   \* the checkbox "Include Move Descriptions"
    show_extended_desc,  \* the checkbox "Include for TM's"
    pokeapi,  \* what the move API answers to a request of this run
    parsed,   \* what each section parser made of the table
    roster,   \* st.session_state.roster
    loading,  \* st.session_state.loading
    roster_lookup,   \* st.session_state["roster_lookup"], "" when not set
    pokemon_select,  \* st.session_state["pokemon_select"]
    roster_chk,      \* the stored state of the checkbox "Add to roster":
                     \* "True", "False", or "unset" when it has none
    clicked,  \* the widget whose change started the script run
    fetches   \* the calls of fetch_learnset_multi_game since that change

vars == <<pc, val, once, twice, gen, cell, avail, table, shape,
          response, document, selected_gen, result, displayed, shown,
          show_descriptions, show_extended_desc, pokeapi, parsed,
          roster, loading, roster_lookup, pokemon_select, roster_chk, clicked,
          fetches>>

cleanVars == <<val, once, twice>>
availVars == <<gen, cell, avail>>
shapeVars == <<table, shape>>
fetchVars == <<response, document, selected_gen, result, displayed, shown>>
parseVars == <<show_descriptions, show_extended_desc, pokeapi, parsed>>
uiVars == <<roster, loading, roster_lookup, pokemon_select, roster_chk, clicked,
            fetches>>

\* The variables of a scenario that is not the running one.
IdleClean == val = <<>> /\ once = <<>> /\ twice = <<>>

-----------------------------------------------------------------------------
(* Text helpers                                                            *)

\* The placeholder dash of the source, U+2014.
Dash == "-"

Digits == {"0", "1", "2", "3", "4", "5", "6", "7", "8", "9"}

\* \d of the regular expressions, on the characters of the model.
IsDigit(c) == c \in Digits

\* Every character of s is a digit.
AllDigits(s) == \A i \in 1..Len(s) : IsDigit(s[i])

\* Python's "sub in s" on strings.
Contains(sub, s) ==
    \E i \in 0..(Len(s) - Len(sub)) : SubSeq(s, i + 1, i + Len(sub)) = sub

\* Length of the longest prefix of s made of digits: what a greedy \d+ takes.
RECURSIVE DigitPrefixLen(_)
DigitPrefixLen(s) ==
    IF s = <<>> \/ ~IsDigit(Head(s)) THEN 0 ELSE 1 + DigitPrefixLen(Tail(s))

\* Length of the longest prefix of s made of "0": what a greedy 0* takes.
RECURSIVE ZeroPrefixLen(_)
ZeroPrefixLen(s) ==
    IF s = <<>> \/ Head(s) # "0" THEN 0 ELSE 1 + ZeroPrefixLen(Tail(s))

-----------------------------------------------------------------------------
(* Case conversion                                                         *)

LowerLetters == <<"a", "b", "c", "d", "e", "f", "g", "h", "i", "j", "k", "l", "m", "n", "o", "p", "q", "r", "s", "t", "u", "v", "w", "x", "y", "z">>
UpperLetters == <<"A", "B", "C", "D", "E", "F", "G", "H", "I", "J", "K", "L", "M", "N", "O", "P", "Q", "R", "S", "T", "U", "V", "W", "X", "Y", "Z">>

LetterIndex(letters, c) ==
    IF \E i \in 1..Len(letters) : letters[i] = c
    THEN CHOOSE i \in 1..Len(letters) : letters[i] = c
    ELSE 0

\* str.upper() and str.lower(), character by character
UpperChar(c) ==
    IF LetterIndex(LowerLetters, c) = 0 THEN c
    ELSE UpperLetters[LetterIndex(LowerLetters, c)]

LowerChar(c) ==
    IF LetterIndex(UpperLetters, c) = 0 THEN c
    ELSE LowerLetters[LetterIndex(UpperLetters, c)]

Upper(s) == [i \in 1..Len(s) |-> UpperChar(s[i])]
Lower(s) == [i \in 1..Len(s) |-> LowerChar(s[i])]

-----------------------------------------------------------------------------
(* Table cells                                                             *)
(*                                                                         *)
(* A cell is a td or th element: its style attribute ("" when it has       *)
(* none), its visible text, the text of a hidden sort key inside it, a     *)
(* flag for a b or strong element inside it, and the a and img elements    *)
(* inside it in document order.  A link carries its href and title and     *)
(* the span elements inside it, each with its style attribute.             *)

Link(href, title, spans) == [href |-> href, title |-> title, spans |-> spans]

Span(style) == [style |-> style]

Cell(tag, style, text, links) ==
    [tag |-> tag, style |-> style, text |-> text, sortkey |-> <<>>,
     bold |-> FALSE, links |-> links, imgs |-> <<>>]

EmptyCell == Cell("td", <<>>, <<>>, <<>>)

IdleAvail == gen = 1 /\ cell = EmptyCell /\ avail = FALSE

-----------------------------------------------------------------------------
(* clean_text                                                              *)

Whitespace == {" ", "\n", "\t"}

RECURSIVE LStrip(_)
LStrip(s) == IF s # <<>> /\ Head(s) \in Whitespace THEN LStrip(Tail(s)) ELSE s

RECURSIVE RStrip(_)
RStrip(s) ==
    IF s # <<>> /\ s[Len(s)] \in Whitespace
    THEN RStrip(SubSeq(s, 1, Len(s) - 1))
    ELSE s

\* get_text(strip=True) on an element with one text node
Strip(s) == RStrip(LStrip(s))

\* re.sub(r"\s+", " ", text)
RECURSIVE CollapseWhitespace(_)
CollapseWhitespace(s) ==
    IF s = <<>> THEN <<>>
    ELSE IF Head(s) \in Whitespace
    THEN <<" ">> \o CollapseWhitespace(LStrip(s))
    ELSE <<Head(s)>> \o CollapseWhitespace(Tail(s))

\* The sort key span of the cell is removed, the visible text is stripped
\* and its whitespace runs collapsed.
clean_text(el) == CollapseWhitespace(Strip(el.text))

\* el.get_text(strip=True): the text nodes of the element, hidden ones
\* included, each stripped, and joined
get_text(el) == Strip(el.sortkey) \o Strip(el.text)

-----------------------------------------------------------------------------
(* Tables                                                                  *)
(*                                                                         *)
(* A table element is the sequence of its tr rows; a row is the sequence   *)
(* of its td and th cells.                                                 *)

\* row.find_all("th"), row.find_all("td")
CellsTagged(row, tag) == SelectSeq(row, LAMBDA c : c.tag = tag)

\* table.find("td") is not None
HasDataCell(tbl) ==
    \E i \in 1..Len(tbl) : \E j \in 1..Len(tbl[i]) : tbl[i][j].tag = "td"

EmptyTable == <<>>

-----------------------------------------------------------------------------
(* Table shape: _find_header_row, _move_idx_from_headers, _has_cat         *)

\* None, where the source returns an index or None
NoIndex == -1

\* " ".join(texts)
RECURSIVE JoinWithSpace(_)
JoinWithSpace(texts) ==
    IF texts = <<>> THEN <<>>
    ELSE IF Len(texts) = 1 THEN texts[1]
    ELSE texts[1] \o <<" ">> \o JoinWithSpace(Tail(texts))

CleanTexts(cells) == [i \in 1..Len(cells) |-> clean_text(cells[i])]

\* the test of the loop body of _find_header_row
IsHeaderRow(row) ==
    LET ths  == CellsTagged(row, "th")
        text == Lower(JoinWithSpace(CleanTexts(ths)))
    IN  /\ Len(ths) >= 3
        /\ Contains(<<"m", "o", "v", "e">>, text)
        /\ Contains(<<"t", "y", "p", "e">>, text)

\* The loop of _find_header_row from row i (0-based) on.
RECURSIVE FindHeaderRowFrom(_, _)
FindHeaderRowFrom(tbl, i) ==
    IF i >= Len(tbl) THEN NoIndex
    ELSE IF IsHeaderRow(tbl[i + 1]) THEN i
    ELSE FindHeaderRowFrom(tbl, i + 1)

\* The index of the header row, 0-based, or NoIndex; its th cells are
\* CellsTagged(tbl[i + 1], "th").
_find_header_row(tbl) == FindHeaderRowFrom(tbl, 0)

RECURSIVE MoveIdxFrom(_, _)
MoveIdxFrom(headers_text, i) ==
    IF i >= Len(headers_text) THEN NoIndex
    ELSE IF Lower(headers_text[i + 1]) = <<"m", "o", "v", "e">> THEN i
    ELSE MoveIdxFrom(headers_text, i + 1)

\* A variant that looks for "move" inside the label.
MoveIdxBySubstring(headers_text) ==
    IF \E i \in 1..Len(headers_text) : Contains(<<"m", "o", "v", "e">>, Lower(headers_text[i]))
    THEN (CHOOSE i \in 1..Len(headers_text) :
            /\ Contains(<<"m", "o", "v", "e">>, Lower(headers_text[i]))
            /\ \A j \in 1..(i - 1) : ~Contains(<<"m", "o", "v", "e">>, Lower(headers_text[j]))) - 1
    ELSE NoIndex

_move_idx_from_headers(headers_text) == MoveIdxFrom(headers_text, 0)

_has_cat(post_move_headers) ==
    \E i \in 1..Len(post_move_headers) :
        Contains(<<"c", "a", "t">>, Lower(post_move_headers[i]))

\* headers_text[k:]
SliceFrom(s, k) == SubSeq(s, k + 1, Len(s))

\* headers_text[:k]
SliceTo(s, k) == SubSeq(s, 1, k)

NoShape ==
    [hdr_idx |-> NoIndex, headers_text |-> <<>>, move_idx |-> NoIndex, cat |-> FALSE]

\* The opening of parse_levelup, parse_tm_hm, parse_breeding and
\* parse_prior_evo: the header row, its labels, the move column and the
\* category flag.  cat is computed only once the move column is known.
table_shape(tbl) ==
    LET hdr_idx == _find_header_row(tbl)
    IN  IF hdr_idx = NoIndex THEN NoShape
        ELSE LET headers_text == CleanTexts(CellsTagged(tbl[hdr_idx + 1], "th"))
                 move_idx     == _move_idx_from_headers(headers_text)
             IN  [hdr_idx      |-> hdr_idx,
                  headers_text |-> headers_text,
                  move_idx     |-> move_idx,
                  cat          |-> IF move_idx = NoIndex THEN FALSE
                                   ELSE _has_cat(SliceFrom(headers_text, move_idx + 1))]

IdleShape == table = EmptyTable /\ shape = NoShape

-----------------------------------------------------------------------------
(* Python values                                                           *)
(*                                                                         *)
(* What a parser or the resolver returns: None, a string of table markup,  *)
(* a dict, or an exception that leaves the function.  A dict keeps its     *)
(* items in insertion order, as a sequence of [key, value] records.        *)

PyNone == [type |-> "NoneType"]

\* The markup built by _build_table: the header labels and the rows.
Html(headers, rows) == [type |-> "str", headers |-> headers, rows |-> rows]

\* A plain string value, such as a display name.
PyStr(text) == [type |-> "str", text |-> text]

PyDict(items) == [type |-> "dict", items |-> items]

Raised(exc) == [type |-> "raise", exc |-> exc]

\* bool(value) for the values above
Truthy(v) ==
    CASE v.type = "NoneType" -> FALSE
      [] v.type = "dict"     -> v.items # <<>>
      [] OTHER               -> TRUE

HasKey(d, key) == \E i \in 1..Len(d.items) : d.items[i].key = key

\* d[key] = value: an existing key keeps its place
DictSet(d, key, value) ==
    IF HasKey(d, key)
    THEN PyDict([i \in 1..Len(d.items) |->
                   IF d.items[i].key = key
                   THEN [key |-> key, value |-> value]
                   ELSE d.items[i]])
    ELSE PyDict(Append(d.items, [key |-> key, value |-> value]))

DictGet(d, key) == d.items[CHOOSE i \in 1..Len(d.items) : d.items[i].key = key].value

\* {**a, **b} and dict.update
RECURSIVE DictMerge(_, _)
DictMerge(a, b) ==
    IF b.items = <<>> THEN a
    ELSE DictMerge(DictSet(a, b.items[1].key, b.items[1].value),
                   PyDict(Tail(b.items)))

-----------------------------------------------------------------------------
(* Cell extractors and the common columns                                  *)

\* A td fragment of the output, by what it shows.
TextTd(text) == [kind |-> "text", text |-> text]
TypeTd(type_name) == [kind |-> "type", text |-> type_name]
MoveTd(move_name, stab, description) ==
    [kind |-> "move", text |-> move_name, stab |-> stab, title |-> description]
FatherTd(content) == [kind |-> "father", content |-> content]
AvailTd(ok) == [kind |-> "avail", ok |-> ok]

DashTd == TextTd(<<Dash>>)

StartsWith(s, prefix) ==
    Len(s) >= Len(prefix) /\ SubSeq(s, 1, Len(prefix)) = prefix

\* str.replace(old, "")
RECURSIVE Remove(_, _)
Remove(s, old) ==
    IF s = <<>> THEN <<>>
    ELSE IF StartsWith(s, old) THEN Remove(SubSeq(s, Len(old) + 1, Len(s)), old)
    ELSE <<Head(s)>> \o Remove(Tail(s), old)

\* str.replace(old, new)
RECURSIVE Replace(_, _, _)
Replace(s, old, new) ==
    IF s = <<>> THEN <<>>
    ELSE IF StartsWith(s, old)
    THEN new \o Replace(SubSeq(s, Len(old) + 1, Len(s)), old, new)
    ELSE <<Head(s)>> \o Replace(Tail(s), old, new)

\* cell.find("a", title=lambda t: t and "(type)" in t): its position or 0
TypeLinkIndex(c) ==
    IF \E i \in 1..Len(c.links) : Contains(<<"(", "t", "y", "p", "e", ")">>, c.links[i].title)
    THEN CHOOSE i \in 1..Len(c.links) :
            /\ Contains(<<"(", "t", "y", "p", "e", ")">>, c.links[i].title)
            /\ \A j \in 1..(i - 1) : ~Contains(<<"(", "t", "y", "p", "e", ")">>, c.links[j].title)
    ELSE 0

extract_type_from_cell(c) ==
    IF TypeLinkIndex(c) # 0
    THEN Remove(c.links[TypeLinkIndex(c)].title, <<" ", "(", "t", "y", "p", "e", ")">>)
    ELSE clean_text(c)

is_stab(c) == c.bold

\* The src of an image made absolute.
AbsoluteSrc(src) ==
    IF StartsWith(src, <<"h", "t", "t", "p">>) THEN src
    ELSE IF StartsWith(src, <<"/", "/">>) THEN <<"h", "t", "t", "p", "s", ":">> \o src
    ELSE <<"h", "t", "t", "p", "s", ":", "/", "/", "b", "u", "l", "b", "a", "p", "e", "d", "i", "a", ".", "b", "u", "l", "b", "a", "g", "a", "r", "d", "e", "n", ".", "n", "e", "t">> \o src

\* The img fragments of the cell, or its text when it holds no image.
extract_father_images(c) ==
    IF c.imgs # <<>>
    THEN [i \in 1..Len(c.imgs) |->
            [src |-> AbsoluteSrc(c.imgs[i].src), alt |-> c.imgs[i].alt]]
    ELSE clean_text(c)

\* cell.find("a", href=lambda h: h and "_(move)" in h) is not None
HasMoveLink(c) ==
    \E i \in 1..Len(c.links) : Contains(<<"_", "(", "m", "o", "v", "e", ")">>, c.links[i].href)

\* The descriptions a row is given when the lookup is off or not asked for.
DescriptionOff == <<"N", "o", "n", "e">>
DescriptionDefault == <<"N", "/", "F">>

\* cells[k] of the source (k counted from 0), or a dash when the row is short
TextOrDash(cells, k) ==
    IF k < Len(cells) THEN TextTd(clean_text(cells[k + 1])) ELSE DashTd

_parse_move_type_cat_pwr_acc_pp(cells, move_idx, has_cat, description) ==
    LET move_cell == cells[move_idx + 1]
        move_part == MoveTd(clean_text(move_cell), is_stab(move_cell), description)
        type_part == IF move_idx + 1 < Len(cells)
                     THEN TypeTd(extract_type_from_cell(cells[move_idx + 2]))
                     ELSE DashTd
        cat_part  == IF has_cat THEN <<TextOrDash(cells, move_idx + 2)>> ELSE <<>>
        offset    == IF has_cat THEN move_idx + 3 ELSE move_idx + 2
    IN  <<move_part, type_part>> \o cat_part
          \o [j \in 1..3 |-> TextOrDash(cells, offset + j - 1)]

_common_out_headers(has_cat) ==
    << <<"M", "o", "v", "e">>, <<"T", "y", "p", "e">> >>
      \o (IF has_cat THEN << <<"C", "a", "t", ".">> >> ELSE <<>>)
      \o << <<"P", "w", "r", ".">>, <<"A", "c", "c", ".">>, <<"P", "P">> >>

\* row.get_text(strip=True)
RECURSIVE RowText(_)
RowText(row) ==
    IF row = <<>> THEN <<>> ELSE get_text(row[1]) \o RowText(Tail(row))

_is_footer_row(row) ==
    /\ Len(CellsTagged(row, "td")) <= 2
    /\ \/ Contains(<<"B", "o", "l", "d", " ", "i", "n", "d", "i", "c", "a", "t", "e", "s">>, RowText(row))
       \/ Contains(<<"S", "T", "A", "B">>, RowText(row))
       \/ Contains(<<"C", "l", "i", "c", "k", " ", "o", "n", " ", "t", "h", "e", " ", "g", "e", "n", "e", "r", "a", "t", "i", "o", "n">>, RowText(row))

\* A variant that returns the markup of a table without rows.
BuildTableAlways(headers, rows) == Html(headers, rows)

_build_table(headers, rows) ==
    IF rows = <<>> THEN PyNone ELSE Html(headers, rows)

\* table.find_all("tr")[hdr_idx + 1:]
RowsAfter(tbl, hdr_idx) == SubSeq(tbl, hdr_idx + 2, Len(tbl))

-----------------------------------------------------------------------------
(* game_available                                                          *)

\* the test of the else branch: the style of a white background
HasWhiteBackground(style) ==
    \/ Contains(<<"r", "g", "b", "(", "2", "5", "5", ",", " ", "2", "5", "5", ",", " ", "2", "5", "5", ")">>, style)
    \/ Contains(<<"b", "a", "c", "k", "g", "r", "o", "u", "n", "d", ":", "#", "F", "F", "F">>, Upper(style))
    \/ Contains(<<"b", "a", "c", "k", "g", "r", "o", "u", "n", "d", ":", " ", "#", "F", "F", "F">>, Upper(style))

\* the test of the gen 6/7 branch: the style of a white font
HasWhiteFont(style) ==
    \/ Contains(<<"#", "F", "F", "F", "F", "F", "F">>, Upper(style))
    \/ Contains(<<"#", "F", "F", "F">>, style)

game_available(c, g) ==
    IF g \in {6, 7}
    THEN IF c.links = <<>> THEN FALSE
         ELSE LET link == c.links[1]
              IN  IF link.spans = <<>> THEN FALSE
                  ELSE HasWhiteFont(link.spans[1].style)
    ELSE IF HasWhiteBackground(c.style) THEN FALSE
         ELSE c.links # <<>>

-----------------------------------------------------------------------------
(* Section parsers                                                         *)
(*                                                                         *)
(* Each returns the markup of the section's table, None, or the exception  *)
(* that leaves it.  The move description lookup is made when its checkbox  *)
(* is ticked; the move API gives one answer to every request of a run.     *)

\* What requests.get gives get_move_description: an exception of the
\* transport, or a response with its ok flag and its body.
ApiFailure == [kind |-> "raise"]
ApiReply(ok, body) == [kind |-> "response", ok |-> ok, body |-> body]

\* A body that is not JSON, and the JSON of a move: its effect entries and
\* str(effect_chance), <<>> when effect_chance is None.
InvalidJson == [kind |-> "invalid"]
MoveData(effect_entries, effect_chance) ==
    [kind |-> "json", effect_entries |-> effect_entries, effect_chance |-> effect_chance]
EffectEntry(language, short_effect) ==
    [language |-> language, short_effect |-> short_effect]

\* The answer when no request is made.
NoReply == ApiReply(FALSE, InvalidJson)

\* next((e for e in entries if e["language"]["name"] == "en"), None): its
\* position, or 0
EnglishEntry(entries) ==
    IF \E i \in 1..Len(entries) : entries[i].language = "en"
    THEN CHOOSE i \in 1..Len(entries) :
            /\ entries[i].language = "en"
            /\ \A j \in 1..(i - 1) : entries[j].language # "en"
    ELSE 0

\* the text of the English entry with the placeholder filled in
ShortEffect(data) ==
    LET text == data.effect_entries[EnglishEntry(data.effect_entries)].short_effect
    IN  IF data.effect_chance # <<>>
        THEN Replace(text, <<"$", "e", "f", "f", "e", "c", "t", "_", "c", "h", "a", "n", "c", "e">>, data.effect_chance)
        ELSE text

\* requests.get and resp.json() are not guarded: what they raise leaves the
\* function
get_move_description(move_name) ==
    IF pokeapi.kind = "raise" THEN Raised("ConnectionError")
    ELSE IF ~pokeapi.ok THEN PyStr(<<>>)
    ELSE IF pokeapi.body.kind = "invalid" THEN Raised("JSONDecodeError")
    ELSE IF EnglishEntry(pokeapi.body.effect_entries) = 0 THEN PyStr(<<>>)
    ELSE PyStr(ShortEffect(pokeapi.body))

\* description of parse_levelup and of parse_tm_hm for a move cell
LevelupDescription(move_cell) ==
    IF show_descriptions THEN get_move_description(clean_text(move_cell))
    ELSE PyStr(DescriptionOff)

TmDescription(move_cell) ==
    IF show_extended_desc THEN get_move_description(clean_text(move_cell))
    ELSE PyStr(DescriptionOff)

\* The rows of a loop that an exception has left end with this mark.
RaisedRow(exc) == << [kind |-> "raise", text |-> exc] >>

\* The exception that has left the loop, or "".
LeftBy(rows) ==
    IF rows # <<>> /\ rows[Len(rows)][1].kind = "raise"
    THEN rows[Len(rows)][1].text ELSE ""

\* return _build_table(out_headers, rows_html), when the loop has ended
Finish(out_headers, rows) ==
    IF LeftBy(rows) # "" THEN Raised(LeftBy(rows))
    ELSE _build_table(out_headers, rows)

\* [clean_text(cells[i]) for i in range(move_idx)] as td fragments
PrefixTexts(cells, move_idx) ==
    [i \in 1..move_idx |-> TextTd(clean_text(cells[i]))]

\* A variant of the loop that puts each row before the rows parsed so far.
RECURSIVE LevelupRowsReversed(_, _, _, _, _)
LevelupRowsReversed(rows, move_idx, cat, out_headers, first_data_row) ==
    IF rows = <<>> THEN <<>>
    ELSE LET cells == Head(rows)
         IN  IF _is_footer_row(Head(rows)) \/ Len(cells) < move_idx + 3
             THEN LevelupRowsReversed(Tail(rows), move_idx, cat, out_headers,
                                      first_data_row)
             ELSE IF /\ first_data_row
                     /\ clean_text(cells[1]) \in {<<"L", "e", "v", "e", "l">>, out_headers[1]}
             THEN LevelupRowsReversed(Tail(rows), move_idx, cat, out_headers, FALSE)
             ELSE LevelupRowsReversed(Tail(rows), move_idx, cat, out_headers, FALSE)
                    \o << PrefixTexts(cells, move_idx)
                            \o _parse_move_type_cat_pwr_acc_pp(cells, move_idx, cat,
                                                               DescriptionOff) >>

\* A variant of the loop that never clears first_data_row.
RECURSIVE LevelupRowsGuardAll(_, _, _, _, _)
LevelupRowsGuardAll(rows, move_idx, cat, out_headers, first_data_row) ==
    IF rows = <<>> THEN <<>>
    ELSE LET cells == Head(rows)
         IN  IF _is_footer_row(Head(rows)) \/ Len(cells) < move_idx + 3
             THEN LevelupRowsGuardAll(Tail(rows), move_idx, cat, out_headers,
                                      first_data_row)
             ELSE IF LevelupDescription(cells[move_idx + 1]).type = "raise"
             THEN << RaisedRow(LevelupDescription(cells[move_idx + 1]).exc) >>
             ELSE IF /\ first_data_row
                     /\ clean_text(cells[1]) \in {<<"L", "e", "v", "e", "l">>, out_headers[1]}
             THEN LevelupRowsGuardAll(Tail(rows), move_idx, cat, out_headers,
                                      first_data_row)
             ELSE << PrefixTexts(cells, move_idx)
                       \o _parse_move_type_cat_pwr_acc_pp(
                              cells, move_idx, cat,
                              LevelupDescription(cells[move_idx + 1]).text) >>
                    \o LevelupRowsGuardAll(Tail(rows), move_idx, cat, out_headers,
                                           first_data_row)

\* the loop of parse_levelup over the rows after the header row
RECURSIVE LevelupRows(_, _, _, _, _)
LevelupRows(rows, move_idx, cat, out_headers, first_data_row) ==
    IF rows = <<>> THEN <<>>
    ELSE LET cells == Head(rows)
         IN  IF _is_footer_row(Head(rows))
             THEN LevelupRows(Tail(rows), move_idx, cat, out_headers, first_data_row)
             ELSE IF Len(cells) < move_idx + 3
             THEN LevelupRows(Tail(rows), move_idx, cat, out_headers, first_data_row)
             ELSE IF LevelupDescription(cells[move_idx + 1]).type = "raise"
             THEN << RaisedRow(LevelupDescription(cells[move_idx + 1]).exc) >>
             ELSE IF /\ first_data_row
                     /\ clean_text(cells[1]) \in {<<"L", "e", "v", "e", "l">>, out_headers[1]}
             THEN LevelupRows(Tail(rows), move_idx, cat, out_headers, FALSE)
             ELSE << PrefixTexts(cells, move_idx)
                       \o _parse_move_type_cat_pwr_acc_pp(
                              cells, move_idx, cat,
                              LevelupDescription(cells[move_idx + 1]).text) >>
                    \o LevelupRows(Tail(rows), move_idx, cat, out_headers, FALSE)

parse_levelup(tbl, g) ==
    LET s == table_shape(tbl)
    IN  IF s.hdr_idx = NoIndex THEN PyNone
        ELSE IF s.move_idx = NoIndex THEN PyNone
        ELSE IF s.move_idx = 0 THEN Raised("IndexError")  \* level_headers[0]
        ELSE LET out_headers == SliceTo(s.headers_text, s.move_idx)
                                  \o _common_out_headers(s.cat)
             IN  Finish(out_headers,
                        LevelupRows(RowsAfter(tbl, s.hdr_idx), s.move_idx,
                                    s.cat, out_headers, TRUE))

\* re.match(r"(TM|HM|TR)\d+", t)
IsTmCode(t) ==
    /\ Len(t) >= 3
    /\ SubSeq(t, 1, 2) \in {<<"T", "M">>, <<"H", "M">>, <<"T", "R">>}
    /\ IsDigit(t[3])

\* The first cell text that is a TM code, or "" when there is none.
RECURSIVE FirstTmText(_)
FirstTmText(cells) ==
    IF cells = <<>> THEN <<>>
    ELSE IF IsTmCode(clean_text(Head(cells))) THEN clean_text(Head(cells))
    ELSE FirstTmText(Tail(cells))

\* The index (from 0) of the first cell with a link to a move article, or
\* NoIndex.
RECURSIVE MoveLinkIdxFrom(_, _)
MoveLinkIdxFrom(cells, i) ==
    IF i >= Len(cells) THEN NoIndex
    ELSE IF HasMoveLink(cells[i + 1]) THEN i
    ELSE MoveLinkIdxFrom(cells, i + 1)

\* the cells of the row with an empty leading cell dropped
WithoutEmptyLead(row) ==
    IF row # <<>> /\ clean_text(row[1]) = <<>> THEN Tail(row) ELSE row

\* the loop of parse_tm_hm; the test tm_text == "TM" on the first data row
\* never holds, a TM code having a digit
RECURSIVE TmRows(_, _)
TmRows(rows, cat) ==
    IF rows = <<>> THEN <<>>
    ELSE LET cells           == WithoutEmptyLead(Head(rows))
             tm_text         == FirstTmText(cells)
             actual_move_idx == MoveLinkIdxFrom(cells, 0)
         IN  IF _is_footer_row(Head(rows)) THEN TmRows(Tail(rows), cat)
             ELSE IF Len(cells) < 4 THEN TmRows(Tail(rows), cat)
             ELSE IF tm_text = <<>> THEN TmRows(Tail(rows), cat)
             ELSE IF actual_move_idx = NoIndex THEN TmRows(Tail(rows), cat)
             ELSE IF TmDescription(cells[actual_move_idx + 1]).type = "raise"
             THEN << RaisedRow(TmDescription(cells[actual_move_idx + 1]).exc) >>
             ELSE << <<TextTd(tm_text)>>
                       \o _parse_move_type_cat_pwr_acc_pp(
                              cells, actual_move_idx, cat,
                              TmDescription(cells[actual_move_idx + 1]).text) >>
                    \o TmRows(Tail(rows), cat)

parse_tm_hm(tbl, g) ==
    LET s == table_shape(tbl)
    IN  IF s.hdr_idx = NoIndex THEN PyNone
        ELSE IF s.move_idx = NoIndex THEN PyNone
        ELSE Finish(<< <<"T", "M">> >> \o _common_out_headers(s.cat),
                    TmRows(RowsAfter(tbl, s.hdr_idx), s.cat))

\* A variant of the loop that skips a row of fewer cells than the move
\* column index + 2.
RECURSIVE BreedingRowsOffByOne(_, _, _, _)
BreedingRowsOffByOne(rows, move_idx, cat, first_data_row) ==
    IF rows = <<>> THEN <<>>
    ELSE LET cells == Head(rows)
         IN  IF _is_footer_row(Head(rows)) \/ Len(cells) < move_idx + 2
             THEN BreedingRowsOffByOne(Tail(rows), move_idx, cat, first_data_row)
             ELSE IF /\ first_data_row
                     /\ clean_text(cells[1]) \in {<<"F", "a", "t", "h", "e", "r">>, <<"P", "a", "r", "e", "n", "t">>}
             THEN BreedingRowsOffByOne(Tail(rows), move_idx, cat, FALSE)
             ELSE << <<FatherTd(extract_father_images(cells[1]))>>
                       \o _parse_move_type_cat_pwr_acc_pp(cells, move_idx, cat,
                                                          DescriptionDefault) >>
                    \o BreedingRowsOffByOne(Tail(rows), move_idx, cat, FALSE)

\* the loop of parse_breeding
RECURSIVE BreedingRows(_, _, _, _)
BreedingRows(rows, move_idx, cat, first_data_row) ==
    IF rows = <<>> THEN <<>>
    ELSE LET cells == Head(rows)
         IN  IF _is_footer_row(Head(rows))
             THEN BreedingRows(Tail(rows), move_idx, cat, first_data_row)
             ELSE IF Len(cells) < move_idx + 3
             THEN BreedingRows(Tail(rows), move_idx, cat, first_data_row)
             ELSE IF /\ first_data_row
                     /\ clean_text(cells[1]) \in {<<"F", "a", "t", "h", "e", "r">>, <<"P", "a", "r", "e", "n", "t">>}
             THEN BreedingRows(Tail(rows), move_idx, cat, FALSE)
             ELSE << <<FatherTd(extract_father_images(cells[1]))>>
                       \o _parse_move_type_cat_pwr_acc_pp(cells, move_idx, cat,
                                                          DescriptionDefault) >>
                    \o BreedingRows(Tail(rows), move_idx, cat, FALSE)

parse_breeding(tbl, g) ==
    LET s == table_shape(tbl)
    IN  IF s.hdr_idx = NoIndex THEN PyNone
        ELSE IF s.move_idx = NoIndex THEN PyNone
        ELSE _build_table(<< <<"F", "a", "t", "h", "e", "r">> >> \o _common_out_headers(s.cat),
                          BreedingRows(RowsAfter(tbl, s.hdr_idx), s.move_idx,
                                       s.cat, TRUE))

\* A row of parse_tutoring is skipped: a footer, or without td or th cells.
TutoringSkips(row) ==
    \/ _is_footer_row(row)
    \/ CellsTagged(row, "td") = <<>>
    \/ CellsTagged(row, "th") = <<>>

\* the loop of parse_tutoring
RECURSIVE TutoringRows(_, _, _)
TutoringRows(rows, cat, g) ==
    IF rows = <<>> THEN <<>>
    ELSE LET ths             == CellsTagged(Head(rows), "th")
             tds             == CellsTagged(Head(rows), "td")
             actual_move_idx == MoveLinkIdxFrom(tds, 0)
         IN  IF TutoringSkips(Head(rows)) THEN TutoringRows(Tail(rows), cat, g)
             ELSE IF actual_move_idx = NoIndex THEN TutoringRows(Tail(rows), cat, g)
             ELSE << [i \in 1..Len(ths) |-> AvailTd(game_available(ths[i], g))]
                       \o _parse_move_type_cat_pwr_acc_pp(tds, actual_move_idx, cat,
                                                          DescriptionDefault) >>
                    \o TutoringRows(Tail(rows), cat, g)

\* game_headers: the th texts of the first row that is not skipped; <<>>
\* stands for None, a row that is not skipped having a th cell
RECURSIVE GameHeaders(_)
GameHeaders(rows) ==
    IF rows = <<>> THEN <<>>
    ELSE IF TutoringSkips(Head(rows)) THEN GameHeaders(Tail(rows))
    ELSE CleanTexts(CellsTagged(Head(rows), "th"))

parse_tutoring(tbl, g) ==
    LET hdr_idx == _find_header_row(tbl)
    IN  IF hdr_idx = NoIndex THEN PyNone
        ELSE LET headers_text == CleanTexts(CellsTagged(tbl[hdr_idx + 1], "th"))
                 cat          == _has_cat(headers_text)
                 rows         == RowsAfter(tbl, hdr_idx)
                 game_headers == GameHeaders(rows)
             IN  IF game_headers = <<>> THEN PyNone
                 ELSE _build_table(game_headers \o _common_out_headers(cat),
                                   TutoringRows(rows, cat, g))

\* the prefix cells of parse_prior_evo: images when the cell holds any
PrefixSources(cells, move_idx) ==
    [i \in 1..move_idx |->
        IF cells[i].imgs # <<>>
        THEN FatherTd(extract_father_images(cells[i]))
        ELSE TextTd(clean_text(cells[i]))]

\* the loop of parse_prior_evo; row_values[0] is the move name when the
\* table has no column before the move
RECURSIVE PriorEvoRows(_, _, _, _)
PriorEvoRows(rows, move_idx, cat, first_data_row) ==
    IF rows = <<>> THEN <<>>
    ELSE LET cells == Head(rows)
         IN  IF _is_footer_row(Head(rows))
             THEN PriorEvoRows(Tail(rows), move_idx, cat, first_data_row)
             ELSE IF Len(cells) < move_idx + 3
             THEN PriorEvoRows(Tail(rows), move_idx, cat, first_data_row)
             ELSE IF first_data_row /\ clean_text(cells[1]) = <<"S", "t", "a", "g", "e">>
             THEN PriorEvoRows(Tail(rows), move_idx, cat, FALSE)
             ELSE << PrefixSources(cells, move_idx)
                       \o _parse_move_type_cat_pwr_acc_pp(cells, move_idx, cat,
                                                          DescriptionDefault) >>
                    \o PriorEvoRows(Tail(rows), move_idx, cat, FALSE)

parse_prior_evo(tbl, g) ==
    LET s == table_shape(tbl)
    IN  IF s.hdr_idx = NoIndex THEN PyNone
        ELSE IF s.move_idx = NoIndex THEN PyNone
        ELSE LET pre_headers == IF s.move_idx > 0
                                THEN SliceTo(s.headers_text, s.move_idx)
                                ELSE << <<"S", "o", "u", "r", "c", "e">> >>
             IN  _build_table(pre_headers \o _common_out_headers(s.cat),
                              PriorEvoRows(RowsAfter(tbl, s.hdr_idx), s.move_idx,
                                           s.cat, TRUE))

-----------------------------------------------------------------------------
(* Section keys                                                            *)

ByLevelingUp == <<"B", "y", " ", "l", "e", "v", "e", "l", "i", "n", "g", " ", "u", "p">>
ByTMHM == <<"B", "y", " ", "T", "M", "/", "H", "M">>
ByTM == <<"B", "y", " ", "T", "M">>
ByTMTR == <<"B", "y", " ", "T", "M", "/", "T", "R">>
ByBreeding == <<"B", "y", " ", "b", "r", "e", "e", "d", "i", "n", "g">>
ByTutoring == <<"B", "y", " ", "t", "u", "t", "o", "r", "i", "n", "g">>
ByPriorEvolution == <<"B", "y", " ", "a", " ", "p", "r", "i", "o", "r", " ", "E", "v", "o", "l", "u", "t", "i", "o", "n">>

\* The pairs (label, anchor_id), in their order.
SECTION_KEYS ==
    << [label |-> ByLevelingUp,     anchor_id |-> <<"B", "y", "_", "l", "e", "v", "e", "l", "i", "n", "g", "_", "u", "p">>],
       [label |-> ByTMHM,           anchor_id |-> <<"B", "y", "_", "T", "M", "/", "H", "M">>],
       [label |-> ByTM,             anchor_id |-> <<"B", "y", "_", "T", "M">>],
       [label |-> ByTMTR,           anchor_id |-> <<"B", "y", "_", "T", "M", "/", "T", "R">>],
       [label |-> ByBreeding,       anchor_id |-> <<"B", "y", "_", "b", "r", "e", "e", "d", "i", "n", "g">>],
       [label |-> ByTutoring,       anchor_id |-> <<"B", "y", "_", "t", "u", "t", "o", "r", "i", "n", "g">>],
       [label |-> ByPriorEvolution, anchor_id |-> <<"B", "y", "_", "a", "_", "p", "r", "i", "o", "r", "_", "E", "v", "o", "l", "u", "t", "i", "o", "n">>] >>

\* SECTION_PARSERS.get(label, parse_levelup)(tbl, gen)
SECTION_PARSERS(label, tbl, g) ==
    CASE label \in {ByTMHM, ByTM, ByTMTR} -> parse_tm_hm(tbl, g)
      [] label = ByBreeding               -> parse_breeding(tbl, g)
      [] label = ByTutoring               -> parse_tutoring(tbl, g)
      [] label = ByPriorEvolution         -> parse_prior_evo(tbl, g)
      [] OTHER                            -> parse_levelup(tbl, g)

\* DISPLAY_LABELS.get(label, label)
DISPLAY_LABELS(label) == IF label \in {ByTM, ByTMTR} THEN ByTMHM ELSE label

GEN7_GAMES ==
    << [display |-> <<"S", "u", "n", ",", " ", "M", "o", "o", "n", ",", " ", "U", "l", "t", "r", "a", " ", "S", "u", "n", " ", "a", "n", "d", " ", "U", "l", "t", "r", "a", " ", "M", "o", "o", "n">>, key |-> <<"S", "M", "U", "S", "U", "M">>],
       [display |-> <<"L", "e", "t", "'", "s", " ", "G", "o", ",", " ", "P", "i", "k", "a", "c", "h", "u", "!", " ", "a", "n", "d", " ", "L", "e", "t", "'", "s", " ", "G", "o", ",", " ", "E", "e", "v", "e", "e", "!">>, key |-> <<"L", "G", "P", "E">>] >>

GEN8_GAMES ==
    << [display |-> <<"S", "w", "o", "r", "d", " ", "a", "n", "d", " ", "S", "h", "i", "e", "l", "d">>, key |-> <<"S", "w", "S", "h">>],
       [display |-> <<"B", "r", "i", "l", "l", "i", "a", "n", "t", " ", "D", "i", "a", "m", "o", "n", "d", " ", "a", "n", "d", " ", "S", "h", "i", "n", "i", "n", "g", " ", "P", "e", "a", "r", "l">>, key |-> <<"B", "D", "S", "P">>] >>

-----------------------------------------------------------------------------
(* The parsed page                                                         *)
(*                                                                         *)
(* The page is the sequence of its elements in document order, the order   *)
(* of find_next and find_all_next.  An element has a name, an id ("" when  *)
(* it has none), the text directly inside it, the position of its parent   *)
(* (0 for the body) and, for a table, its rows.  The descendants of an     *)
(* element follow it directly.  A position stands for the element object;  *)
(* 0 stands for None.                                                      *)

NoNode == 0

Node(name, id, text, parent, tbl) ==
    [name |-> name, id |-> id, text |-> text, parent |-> parent, table |-> tbl]

HeadingNames == {"h3", "h4", "h5"}

\* Element i lies inside element a.
RECURSIVE IsInside(_, _, _)
IsInside(soup, i, a) ==
    IF soup[i].parent = NoNode THEN FALSE
    ELSE soup[i].parent = a \/ IsInside(soup, soup[i].parent, a)

\* The children of element i (of the body for 0), in order.
Children(soup, i) ==
    SelectSeq([k \in 1..Len(soup) |-> k], LAMBDA k : soup[k].parent = i)

\* tag.get_text(strip=True): the text nodes of the element and of the
\* elements inside it, each stripped, in document order
RECURSIVE TextFrom(_, _, _)
TextFrom(soup, a, k) ==
    IF k > Len(soup) THEN <<>>
    ELSE IF k = a \/ IsInside(soup, k, a)
    THEN Strip(soup[k].text) \o TextFrom(soup, a, k + 1)
    ELSE <<>>

NodeText(soup, a) == TextFrom(soup, a, a)

\* What Tag.__eq__ compares: the name, the attributes and the contents.
RECURSIVE Content(_, _)
Content(soup, i) ==
    LET kids == Children(soup, i)
    IN  [name  |-> soup[i].name,
         id    |-> soup[i].id,
         text  |-> soup[i].text,
         table |-> soup[i].table,
         kids  |-> [k \in 1..Len(kids) |-> Content(soup, kids[k])]]

\* a == b on two elements, either of which may be None or the body
SameTag(soup, a, b) ==
    IF a = NoNode \/ b = NoNode THEN a = b
    ELSE Content(soup, a) = Content(soup, b)

\* The first of a set of positions in document order, or NoNode.
FirstOf(S) == IF S = {} THEN NoNode ELSE CHOOSE k \in S : \A j \in S : k <= j

\* soup.find(id=id)
FindById(soup, id) == FirstOf({k \in 1..Len(soup) : soup[k].id = id})

PercentEncoded(anchor_id) == Replace(anchor_id, <<"/">>, <<"%", "2", "F">>)

-----------------------------------------------------------------------------
(* Section locator                                                         *)

_find_section_anchor(soup, label, anchor_id) ==
    IF FindById(soup, anchor_id) # NoNode THEN FindById(soup, anchor_id)
    ELSE IF FindById(soup, PercentEncoded(anchor_id)) # NoNode
    THEN FindById(soup, PercentEncoded(anchor_id))
    ELSE FirstOf({k \in 1..Len(soup) :
                    /\ soup[k].name \in {"h4", "h3", "span"}
                    /\ Contains(Lower(label), Lower(NodeText(soup, k)))})

\* The number of parents _find_table_after climbs at most.
AscentDepth == 5

\* The climb of _find_table_after: it stops at a heading or a div.  The
\* body, its parents and the document object are all position 0.
RECURSIVE Ascend(_, _, _)
Ascend(soup, i, steps) ==
    IF steps = 0 \/ i = NoNode THEN i
    ELSE IF soup[i].name \in HeadingNames \cup {"div"} THEN i
    ELSE Ascend(soup, soup[i].parent, steps - 1)

\* The scan of parent.find_all_next() from position k on.
RECURSIVE ScanForTable(_, _, _)
ScanForTable(soup, parent, k) ==
    IF k > Len(soup) THEN NoNode
    ELSE IF soup[k].name = "table" /\ HasDataCell(soup[k].table) THEN k
    ELSE IF soup[k].name \in HeadingNames /\ ~SameTag(soup, k, parent) THEN NoNode
    ELSE ScanForTable(soup, parent, k + 1)

\* The position of the table found, or NoNode.
_find_table_after(soup, anchor) ==
    LET parent == Ascend(soup, anchor, AscentDepth)
    IN  ScanForTable(soup, parent, parent + 1)

-----------------------------------------------------------------------------
(* Multi-game helpers                                                      *)

\* re.sub(r'\s+', ' ', s.lower().replace(',', ', ')).strip()
_normalize_text(s) ==
    Strip(CollapseWhitespace(Replace(Lower(s), <<",">>, <<",", " ">>)))

GamesOf(g) == IF g = 7 THEN GEN7_GAMES ELSE IF g = 8 THEN GEN8_GAMES ELSE <<>>

\* The first game of the list that the heading text names, or 0.
GameNamed(text, games) ==
    FirstOf({i \in 1..Len(games) :
               \/ Contains(_normalize_text(games[i].display), text)
               \/ Contains(Lower(games[i].key), text)})

\* the loop of _find_game_headers over the h4 elements from position k on
RECURSIVE GameHeadersFrom(_, _, _)
GameHeadersFrom(soup, games, k) ==
    IF k > Len(soup) THEN <<>>
    ELSE LET text == _normalize_text(NodeText(soup, k))
             i    == GameNamed(text, games)
         IN  IF soup[k].name = "h4" /\ i # 0
             THEN << [display |-> games[i].display, key |-> games[i].key,
                      elem |-> k] >> \o GameHeadersFrom(soup, games, k + 1)
             ELSE GameHeadersFrom(soup, games, k + 1)

_find_game_headers(soup, g) ==
    IF g \in {7, 8} THEN GameHeadersFrom(soup, GamesOf(g), 1) ELSE <<>>

\* The section key element k stands for in _get_sections_between: a span by
\* its id, an h4 or h5 by its text; 0 when it stands for none.
SectionKeyOf(soup, k, section_keys) ==
    FirstOf({i \in 1..Len(section_keys) :
               \/ /\ soup[k].name = "span"
                  /\ soup[k].id # <<>>
                  /\ \/ Contains(Lower(section_keys[i].anchor_id), Lower(soup[k].id))
                     \/ Contains(Lower(PercentEncoded(section_keys[i].anchor_id)),
                                 Lower(soup[k].id))
               \/ /\ soup[k].name \in {"h4", "h5"}
                  /\ Contains(Lower(section_keys[i].label), Lower(NodeText(soup, k)))})

\* results after a parser has returned html for the label: markup is
\* stored, None is not, and an exception replaces the results.
Stored(results, label, html) ==
    IF html.type = "raise" THEN html
    ELSE IF Truthy(html) THEN DictSet(results, DISPLAY_LABELS(label), html)
    ELSE results

\* results after the table found (tbl, or NoNode) has been parsed
WithTable(soup, results, tbl, label, g) ==
    IF tbl = NoNode THEN results
    ELSE Stored(results, label, SECTION_PARSERS(label, soup[tbl].table, g))

\* results after the table of the anchor has been looked for and parsed
WithSection(soup, results, anchor, label, g) ==
    WithTable(soup, results, _find_table_after(soup, anchor), label, g)

\* the body of the single-game loop once the anchor has been looked for
WithAnchor(soup, results, anchor, label, g) ==
    IF anchor = NoNode THEN results
    ELSE WithSection(soup, results, anchor, label, g)

\* the loop of _get_sections_between from element k on; the parsers are
\* called with generation 7
RECURSIVE SectionsFrom(_, _, _, _, _)
SectionsFrom(soup, k, end_elem, section_keys, results) ==
    IF results.type = "raise" THEN results
    ELSE IF k > Len(soup) \/ SameTag(soup, k, end_elem) THEN results
    ELSE LET i == SectionKeyOf(soup, k, section_keys)
         IN  SectionsFrom(soup, k + 1, end_elem, section_keys,
                          IF i = 0 THEN results
                          ELSE WithSection(soup, results, k, section_keys[i].label, 7))

_get_sections_between(soup, start_elem, end_elem, section_keys) ==
    SectionsFrom(soup, start_elem + 1, end_elem, section_keys, PyDict(<<>>))

SwSh == [display |-> <<"S", "w", "o", "r", "d", " ", "a", "n", "d", " ", "S", "h", "i", "e", "l", "d">>, key |-> <<"S", "w", "S", "h">>]
BDSP == [display |-> <<"B", "r", "i", "l", "l", "i", "a", "n", "t", " ", "D", "i", "a", "m", "o", "n", "d", " ", "a", "n", "d", " ", "S", "h", "i", "n", "i", "n", "g", " ", "P", "e", "a", "r", "l">>, key |-> <<"B", "D", "S", "P">>]

\* The games the paragraph names, when it is the introduction.
GamesIn(text) ==
    (IF Contains(<<"s", "w", "o", "r", "d", " ", "a", "n", "d", " ", "s", "h", "i", "e", "l", "d">>, text) THEN <<SwSh>> ELSE <<>>)
      \o (IF Contains(<<"b", "r", "i", "l", "l", "i", "a", "n", "t", " ", "d", "i", "a", "m", "o", "n", "d">>, text) THEN <<BDSP>> ELSE <<>>)

_detect_gen8_games(soup) ==
    LET intro == FirstOf({k \in 1..Len(soup) :
                            /\ soup[k].name = "p"
                            /\ Contains(<<"i", "s", " ", "a", "v", "a", "i", "l", "a", "b", "l", "e", " ", "i", "n">>, Lower(NodeText(soup, k)))
                            /\ GamesIn(Lower(NodeText(soup, k))) # <<>>})
    IN  IF intro = NoNode THEN <<SwSh>> ELSE GamesIn(Lower(NodeText(soup, intro)))

Shared == <<"s", "h", "a", "r", "e", "d">>

\* pending_game after the element: a marker paragraph sets it; <<>> is None
PendingAfter(soup, k, pending_game) ==
    LET p_text == NodeText(soup, k)
    IN  IF soup[k].name # "p" THEN pending_game
        ELSE IF \/ p_text \in {<<"S", "w", "S", "h">>, <<"B", "D", "S", "P">>}
                \/ Contains(<<"S", "w">>, p_text) /\ Contains(<<"S", "h">>, p_text)
        THEN <<"S", "w", "S", "h">>
        ELSE IF Contains(<<"B", "D">>, p_text) /\ Contains(<<"S", "P">>, p_text)
        THEN <<"B", "D", "S", "P">>
        ELSE pending_game

\* the loop of _find_gen8_section_tables from element k on
RECURSIVE Gen8TablesFrom(_, _, _, _, _, _)
Gen8TablesFrom(soup, k, section_anchor, next_section_anchor, pending_game, results) ==
    IF k > Len(soup) THEN results
    ELSE IF soup[k].name = "h4" /\ ~SameTag(soup, k, section_anchor) THEN results
    ELSE IF next_section_anchor # NoNode /\ SameTag(soup, k, next_section_anchor)
    THEN results
    ELSE LET pending  == PendingAfter(soup, k, pending_game)
             is_table == soup[k].name = "table" /\ HasDataCell(soup[k].table)
         IN  IF is_table /\ pending # <<>>
             THEN Gen8TablesFrom(soup, k + 1, section_anchor, next_section_anchor,
                                 <<>>, DictSet(results, pending, k))
             ELSE IF is_table /\ ~HasKey(results, Shared)
             THEN Gen8TablesFrom(soup, k + 1, section_anchor, next_section_anchor,
                                 pending, DictSet(results, Shared, k))
             ELSE Gen8TablesFrom(soup, k + 1, section_anchor, next_section_anchor,
                                 pending, results)

\* A dict from "shared" or a game key to the position of its table.
_find_gen8_section_tables(soup, section_anchor, next_section_anchor) ==
    Gen8TablesFrom(soup, section_anchor + 1, section_anchor, next_section_anchor,
                   <<>>, PyDict(<<>>))

\* The position in section_keys of the key with this anchor id.
KeyIndex(section_keys, anchor_id) ==
    FirstOf({i \in 1..Len(section_keys) : section_keys[i].anchor_id = anchor_id})

_get_next_section_anchor(soup, current_anchor_id, section_keys) ==
    LET later == {i \in 1..Len(section_keys) :
                    /\ KeyIndex(section_keys, current_anchor_id) # 0
                    /\ i > KeyIndex(section_keys, current_anchor_id)
                    /\ _find_section_anchor(soup, section_keys[i].label,
                                            section_keys[i].anchor_id) # NoNode}
    IN  IF later = {} THEN NoNode
        ELSE _find_section_anchor(soup, section_keys[FirstOf(later)].label,
                                  section_keys[FirstOf(later)].anchor_id)

-----------------------------------------------------------------------------
(* fetch_learnset_multi_game and is_multi_game_result                      *)

DisplayKey == <<"_", "d", "i", "s", "p", "l", "a", "y">>

\* {"_display": display}
DisplayOnly(display) ==
    PyDict(<< [key |-> DisplayKey, value |-> PyStr(display)] >>)

\* What the function returns, with the branch that returned it.
Returned(branch, value) == [branch |-> branch, value |-> value]

\* A branch that returns nothing: execution goes on below it.
FallsThrough == Returned("falls through", PyNone)

\* results after the sections of one game heading have been collected
Gen7Stored(results, header, sections) ==
    IF sections.type = "raise" THEN sections
    ELSE IF Truthy(sections)
    THEN DictSet(results, header.key,
                 DictMerge(DisplayOnly(header.display), sections))
    ELSE results

\* game_headers[i + 1][2] if i + 1 < len(game_headers) else None
EndElem(game_headers, i) ==
    IF i + 1 <= Len(game_headers) THEN game_headers[i + 1].elem ELSE NoNode

\* the loop of the generation 7 branch over game_headers from entry i on
RECURSIVE Gen7Results(_, _, _, _)
Gen7Results(soup, game_headers, i, results) ==
    IF results.type = "raise" \/ i > Len(game_headers) THEN results
    ELSE Gen7Results(soup, game_headers, i + 1,
             Gen7Stored(results, game_headers[i],
                        _get_sections_between(soup, game_headers[i].elem,
                                              EndElem(game_headers, i),
                                              SECTION_KEYS)))

\* A variant that returns the results of the loop even when they are empty.
Gen7ReturnAlways(results) ==
    IF results.type = "raise" THEN Returned("raise", results)
    ELSE Returned("gen7", results)

\* if results: return results
Gen7Return(results) ==
    IF results.type = "raise" THEN Returned("raise", results)
    ELSE IF Truthy(results) THEN Returned("gen7", results)
    ELSE FallsThrough

Gen7From(soup, game_headers) ==
    IF Len(game_headers) >= 2
    THEN Gen7Return(Gen7Results(soup, game_headers, 1, PyDict(<<>>)))
    ELSE FallsThrough

Gen7Branch(soup, g) == Gen7From(soup, _find_game_headers(soup, g))

\* A variant that adds the section to the first game alone.
SetForFirstGame(results, display_label, html) ==
    PyDict([i \in 1..Len(results.items) |->
              [key   |-> results.items[i].key,
               value |-> IF i = 1
                         THEN DictSet(results.items[i].value, display_label, html)
                         ELSE results.items[i].value]])

\* results[gk][display_label] = html for every game of results
SetForAllGames(results, display_label, html) ==
    PyDict([i \in 1..Len(results.items) |->
              [key   |-> results.items[i].key,
               value |-> DictSet(results.items[i].value, display_label, html)]])

\* results after the parser has returned html for the table of game_key
Gen8Stored(results, game_key, label, html) ==
    IF html.type = "raise" THEN html
    ELSE IF ~Truthy(html) THEN results
    ELSE IF game_key = Shared
    THEN SetForAllGames(results, DISPLAY_LABELS(label), html)
    ELSE IF HasKey(results, game_key)
    THEN DictSet(results, game_key,
                 DictSet(DictGet(results, game_key), DISPLAY_LABELS(label), html))
    ELSE results

\* the loop over game_tables.items() of the generation 8 branch
RECURSIVE Gen8Store(_, _, _, _, _, _)
Gen8Store(soup, game_tables, label, g, i, results) ==
    IF results.type = "raise" \/ i > Len(game_tables.items) THEN results
    ELSE Gen8Store(soup, game_tables, label, g, i + 1,
             Gen8Stored(results, game_tables.items[i].key, label,
                        SECTION_PARSERS(label,
                                        soup[game_tables.items[i].value].table, g)))

\* the body of the loop over SECTION_KEYS once the anchor has been looked for
Gen8Section(soup, g, key, anchor, results) ==
    IF anchor = NoNode THEN results
    ELSE Gen8Store(soup,
                   _find_gen8_section_tables(soup, anchor,
                       _get_next_section_anchor(soup, key.anchor_id, SECTION_KEYS)),
                   key.label, g, 1, results)

\* the loop over SECTION_KEYS of the generation 8 branch from key i on
RECURSIVE Gen8Results(_, _, _, _)
Gen8Results(soup, g, i, results) ==
    IF results.type = "raise" \/ i > Len(SECTION_KEYS) THEN results
    ELSE Gen8Results(soup, g, i + 1,
             Gen8Section(soup, g, SECTION_KEYS[i],
                         _find_section_anchor(soup, SECTION_KEYS[i].label,
                                              SECTION_KEYS[i].anchor_id),
                         results))

\* results = {key: {"_display": display} for display, key in available_games}
Gen8Init(available_games) ==
    PyDict([i \in 1..Len(available_games) |->
              [key   |-> available_games[i].key,
               value |-> DisplayOnly(available_games[i].display)]])

\* A variant that takes every bucket for a populated one.
AnyBucket(results) == TRUE

\* any(len(v) > 1 for v in results.values())
AnyPopulated(results) ==
    \E i \in 1..Len(results.items) : Len(results.items[i].value.items) > 1

\* if any(len(v) > 1 for v in results.values()): return results
Gen8Return(results) ==
    IF results.type = "raise" THEN Returned("raise", results)
    ELSE IF AnyPopulated(results) THEN Returned("gen8", results)
    ELSE FallsThrough

Gen8From(soup, g, available_games) ==
    IF Len(available_games) >= 2
    THEN Gen8Return(Gen8Results(soup, g, 1, Gen8Init(available_games)))
    ELSE FallsThrough

Gen8Branch(soup, g) == Gen8From(soup, g, _detect_gen8_games(soup))

\* the loop of the single-game pipeline over SECTION_KEYS from key i on
RECURSIVE SingleGameResults(_, _, _, _)
SingleGameResults(soup, g, i, results) ==
    IF results.type = "raise" \/ i > Len(SECTION_KEYS) THEN results
    ELSE SingleGameResults(soup, g, i + 1,
             WithAnchor(soup, results,
                        _find_section_anchor(soup, SECTION_KEYS[i].label,
                                             SECTION_KEYS[i].anchor_id),
                        SECTION_KEYS[i].label, g))

\* return results if results else None
FallbackReturn(results) ==
    IF results.type = "raise" THEN Returned("raise", results)
    ELSE Returned("single", IF Truthy(results) THEN results ELSE PyNone)

\* the single-game pipeline that ends the function
Fallback(soup, g) == FallbackReturn(SingleGameResults(soup, g, 1, PyDict(<<>>)))

\* the branch on the generation
MultiGame(soup, g) ==
    IF g = 7 THEN Gen7Branch(soup, g)
    ELSE IF g = 8 THEN Gen8Branch(soup, g)
    ELSE FallsThrough

\* what the branch returned, or else what the single-game pipeline returns
OrFallback(multi, soup, g) ==
    IF multi.branch = FallsThrough.branch THEN Fallback(soup, g) ELSE multi

\* The response of the wiki: the page, no such page, or a failed request.
Responses == {"200", "404", "RequestException"}

fetch_learnset_multi_game(resp, soup, g) ==
    IF resp = "404" THEN Returned("404", PyNone)
    ELSE IF resp = "RequestException" THEN Returned("RequestException", PyNone)
    ELSE OrFallback(MultiGame(soup, g), soup, g)

\* isinstance(first_val, dict) on the first value of a non-empty result
is_multi_game_result(r) ==
    IF ~Truthy(r) THEN FALSE
    ELSE r.items[1].value.type = "dict"

\* {k: v for k, v in bucket.items() if k != "_display"}
WithoutDisplay(bucket) ==
    PyDict(SelectSeq(bucket.items, LAMBDA it : it.key # DisplayKey))

\* Before the call: nothing returned yet.
NoResult == Returned("pending", PyNone)

\* No lookup of descriptions, and nothing parsed.
IdleParse ==
    /\ show_descriptions = FALSE
    /\ show_extended_desc = FALSE
    /\ pokeapi = NoReply
    /\ parsed = <<>>

\* The session state of the first run, and no widget changed.
NoClick == [kind |-> "none", name |-> ""]

IdleUi ==
    /\ roster = <<>>
    /\ loading = FALSE
    /\ roster_lookup = ""
    /\ pokemon_select = ""
    /\ roster_chk = "unset"
    /\ clicked = NoClick
    /\ fetches = 0

IdleFetch ==
    /\ response = "200"
    /\ document = <<>>
    /\ selected_gen = 1
    /\ result = NoResult
    /\ displayed = PyNone
    /\ shown = "nothing"

-----------------------------------------------------------------------------
(* clean_value                                                             *)

NoMatch == [matched |-> FALSE, group |-> <<>>]

\* ^0*(\d+)\1$ with 0* having taken k zeros: (\d+)\1 must cover the rest.
RepeatAfter(s, k) ==
    LET rest == SubSeq(s, k + 1, Len(s))
        half == Len(rest) \div 2
    IN  /\ Len(rest) > 0
        /\ Len(rest) % 2 = 0
        /\ SubSeq(rest, 1, half) = SubSeq(rest, half + 1, Len(rest))

\* The backtracking of ^0*(\d+)\1$: 0* is greedy, so it is tried with the
\* most zeros first and gives them back one at a time.
RECURSIVE MatchRepeatFrom(_, _)
MatchRepeatFrom(s, k) ==
    IF RepeatAfter(s, k)
    THEN [matched |-> TRUE,
          group   |-> SubSeq(s, k + 1, k + ((Len(s) - k) \div 2))]
    ELSE IF k = 0 THEN NoMatch ELSE MatchRepeatFrom(s, k - 1)

\* re.match(r"^0*(\d+)\1$", val)
MatchRepeat(s) ==
    IF AllDigits(s) THEN MatchRepeatFrom(s, ZeroPrefixLen(s)) ELSE NoMatch

\* s matches \d+%?$ entirely
IsNumberPercent(s) ==
    LET d == DigitPrefixLen(s)
    IN  /\ d >= 1
        /\ \/ d = Len(s)
           \/ d = Len(s) - 1 /\ s[Len(s)] = "%"

\* re.match(r"\d+\}\}(\d+%?)$", val)
MatchBraces(s) ==
    LET d    == DigitPrefixLen(s)
        rest == SubSeq(s, d + 3, Len(s))
    IN  IF /\ d >= 1
           /\ Len(s) >= d + 2
           /\ s[d + 1] = "}"
           /\ s[d + 2] = "}"
           /\ IsNumberPercent(rest)
        THEN [matched |-> TRUE, group |-> rest]
        ELSE NoMatch

\* re.match(r"^0+-$", val), the dash being U+2014
MatchZerosDash(s) ==
    /\ Len(s) >= 2
    /\ ZeroPrefixLen(s) = Len(s) - 1
    /\ s[Len(s)] = Dash

\* "-" in val and "}}" in val
HasDashAndBraces(s) == Contains(<<Dash>>, s) /\ Contains(<<"}", "}">>, s)

\* A variant of the fifth pattern that forgets the optional percent sign.
MatchDigitsDashNoPercent(s) ==
    LET d == DigitPrefixLen(s)
    IN  /\ d >= 1
        /\ Len(s) = d + 1
        /\ s[d + 1] = Dash

\* re.match(r"^\d+-%?$", val)
MatchDigitsDash(s) ==
    LET d == DigitPrefixLen(s)
    IN  /\ d >= 1
        /\ Len(s) >= d + 1
        /\ s[d + 1] = Dash
        /\ \/ Len(s) = d + 1
           \/ Len(s) = d + 2 /\ s[d + 2] = "%"

clean_value(s) ==
    IF MatchRepeat(s).matched THEN MatchRepeat(s).group
    ELSE IF MatchBraces(s).matched THEN MatchBraces(s).group
    ELSE IF MatchZerosDash(s) THEN <<Dash>>
    ELSE IF HasDashAndBraces(s) THEN <<Dash>>
    ELSE IF MatchDigitsDash(s) THEN <<Dash>>
    ELSE IF s # <<>> THEN s ELSE <<Dash>>

-----------------------------------------------------------------------------
(* Scenario: clean_value applied once and then again to its own result     *)

\* Longest enumerated argument of clean_value.
MaxValLen == 4

\* The characters the enumerated arguments are built from.
ValAlphabet == {"0", "1", "}", "%", Dash}

RECURSIVE StringsUpTo(_, _)
StringsUpTo(A, n) ==
    IF n = 0 THEN {<<>>}
    ELSE LET shorter == StringsUpTo(A, n - 1)
         IN  shorter \cup {Append(s, c) : s \in shorter, c \in A}

\* The literal arguments of the documented examples.
LiteralVals ==
    { <<"0", "4", "0", "4", "0">>,
      <<"0", "8", "0", "8", "0">>,
      <<"1", "2", "0", "1", "2", "0">>,
      <<"1", "0", "0", "}", "}", "1", "0", "0", "%">>,
      <<"0", "7", "0", "}", "}", "7", "0", "%">>,
      <<"0", "0", "0", "0", Dash>>,
      <<"0", "0", Dash, "}", "}", Dash, "%">>,
      <<"1", "0", "1", Dash, "%">>,
      <<"4", "0">>,
      <<"0", "0", "1", "0", "0", "1">> }

CleanInputs == StringsUpTo(ValAlphabet, MaxValLen) \cup LiteralVals

InitClean ==
    /\ pc = "clean.start"
    /\ val \in CleanInputs
    /\ once = <<>>
    /\ twice = <<>>
    /\ IdleAvail
    /\ IdleShape
    /\ IdleFetch
    /\ IdleParse
    /\ IdleUi

\* first call: clean_value(val)
CleanOnce ==
    /\ pc = "clean.start"
    /\ once' = clean_value(val)
    /\ pc' = "clean.once"
    /\ UNCHANGED <<val, twice, availVars, shapeVars, fetchVars, parseVars, uiVars>>

\* second call, on the result of the first
CleanTwice ==
    /\ pc = "clean.once"
    /\ twice' = clean_value(once)
    /\ pc' = "clean.twice"
    /\ UNCHANGED <<val, once, availVars, shapeVars, fetchVars, parseVars, uiVars>>

NextClean == CleanOnce \/ CleanTwice

SpecClean == InitClean /\ [][NextClean]_vars

-----------------------------------------------------------------------------
(* Properties of clean_value                                               *)

\* The ways of reading s as k zeros of padding followed by a digit sequence
\* D written twice: the set of such <<k, D>>.
RepeatReadings(s) ==
    { <<k, SubSeq(s, k + 1, k + ((Len(s) - k) \div 2))>> :
        k \in { j \in 0..Len(s) :
                  /\ AllDigits(s)
                  /\ \A i \in 1..j : s[i] = "0"
                  /\ RepeatAfter(s, j) } }

\* D without its leading zeros, keeping one digit when D is all zeros.
RECURSIVE StripLeadingZeros(_)
StripLeadingZeros(d) ==
    IF Len(d) > 1 /\ Head(d) = "0" THEN StripLeadingZeros(Tail(d)) ELSE d

\* s reads as digits, "}}", then a second value: digits with an optional "%".
BraceReadings(s) ==
    { SubSeq(s, i + 2, Len(s)) :
        i \in { j \in 2..(Len(s) - 1) :
                  /\ AllDigits(SubSeq(s, 1, j - 1))
                  /\ s[j] = "}" /\ s[j + 1] = "}"
                  /\ LET v == SubSeq(s, j + 2, Len(s))
                     IN  \/ v # <<>> /\ AllDigits(v)
                         \/ /\ Len(v) >= 2
                            /\ v[Len(v)] = "%"
                            /\ AllDigits(SubSeq(v, 1, Len(v) - 1)) } }

\* s is the placeholder pattern 3, 4 or 5: zeros and a dash; a dash and a
\* double brace; digits, a dash and an optional percent sign.
IsDashArtifact(s) ==
    \/ \E n \in 1..Len(s) : s = [i \in 1..(n + 1) |-> IF i <= n THEN "0" ELSE Dash]
    \/ (\E i \in 1..Len(s) : s[i] = Dash)
         /\ (\E i \in 1..(Len(s) - 1) : s[i] = "}" /\ s[i + 1] = "}")
    \/ \E n \in 1..Len(s) :
         /\ AllDigits(SubSeq(s, 1, n))
         /\ SubSeq(s, n + 1, Len(s)) \in {<<Dash>>, <<Dash, "%">>}

\* C1 (as claimed): clean_value is idempotent: cleaning the cleaned value
\* again gives the cleaned value, for every argument over the digits, the
\* dash, "}" and "%".
C1_Idempotent == pc = "clean.twice" => twice = once

\* C2: the literal examples are repaired as documented ("04040" to "40",
\* "08080" to "80", "100}}100%" to "100%", "0000-" to "-", "00-}}-%" to
\* "-", "101-%" to "-", "" to "-", "40" unchanged), and the patterns decide
\* in their order: a repeated numeral gives one of its halves, else a
\* brace artifact gives its second value, else a dash artifact gives the
\* dash, else the argument is returned (the dash when it is empty).
C2_RepairCases ==
    pc # "clean.start" =>
        /\ val = <<"0", "4", "0", "4", "0">> => once = <<"4", "0">>
        /\ val = <<"0", "8", "0", "8", "0">> => once = <<"8", "0">>
        /\ val = <<"1", "0", "0", "}", "}", "1", "0", "0", "%">>
              => once = <<"1", "0", "0", "%">>
        /\ val = <<"0", "0", "0", "0", Dash>> => once = <<Dash>>
        /\ val = <<"0", "0", Dash, "}", "}", Dash, "%">> => once = <<Dash>>
        /\ val = <<"1", "0", "1", Dash, "%">> => once = <<Dash>>
        /\ val = <<>> => once = <<Dash>>
        /\ val = <<"4", "0">> => once = <<"4", "0">>
        /\ IF RepeatReadings(val) # {}
           THEN \E r \in RepeatReadings(val) : once = r[2]
           ELSE IF BraceReadings(val) # {}
           THEN once \in BraceReadings(val)
           ELSE IF IsDashArtifact(val) THEN once = <<Dash>>
           ELSE IF val = <<>> THEN once = <<Dash>>
           ELSE once = val

\* C2 witness: the artifact "00-}}-%", which only the fourth pattern
\* matches, has been repaired to the dash.
C2_Witness ==
    /\ pc = "clean.once"
    /\ val = <<"0", "0", Dash, "}", "}", Dash, "%">>
    /\ once = <<Dash>>

\* C3 (as claimed): a numeral that is zero padding followed by a digit
\* sequence D written twice is repaired to D without leading zeros.
C3_RepeatStripped ==
    pc # "clean.start" =>
        \A r \in RepeatReadings(val) : once = StripLeadingZeros(r[2])


-----------------------------------------------------------------------------
(* Scenario: game_available on one cell of a tutoring table                *)

\* Most links in an enumerated cell, and most spans in one link.
MaxLinks == 2
MaxSpans == 2

Gens == 1..8

\* The style attributes of the enumerated cells.
CellStyles ==
    { <<>>,
      <<"b", "a", "c", "k", "g", "r", "o", "u", "n", "d", ":", "#", "F", "F", "F", "F", "F", "F">>,
      <<"b", "a", "c", "k", "g", "r", "o", "u", "n", "d", ":", "#", "f", "f", "f">>,
      <<"b", "a", "c", "k", "g", "r", "o", "u", "n", "d", ":", " ", "#", "F", "F", "F">>,
      <<"b", "a", "c", "k", "g", "r", "o", "u", "n", "d", ":", "r", "g", "b", "(", "2", "5", "5", ",", " ", "2", "5", "5", ",", " ", "2", "5", "5", ")">>,
      <<"b", "a", "c", "k", "g", "r", "o", "u", "n", "d", ":", "#", "E", "E", "1", "5", "1", "5">> }

\* The style attributes of the enumerated spans.
SpanStyles ==
    { <<>>,
      <<"c", "o", "l", "o", "r", ":", "#", "F", "F", "F", "F", "F", "F">>,
      <<"c", "o", "l", "o", "r", ":", "#", "f", "f", "f", "f", "f", "f">>,
      <<"c", "o", "l", "o", "r", ":", "#", "F", "F", "F">>,
      <<"c", "o", "l", "o", "r", ":", "#", "0", "0", "0">> }

RECURSIVE SeqsUpTo(_, _)
SeqsUpTo(S, n) ==
    IF n = 0 THEN {<<>>}
    ELSE LET shorter == SeqsUpTo(S, n - 1)
         IN  shorter \cup {Append(s, x) : s \in shorter, x \in S}

GameHref == <<"/", "w", "i", "k", "i", "/", "H", "G", "S", "S">>

AvailLinks ==
    { Link(GameHref, <<>>, spans) :
        spans \in SeqsUpTo({Span(st) : st \in SpanStyles}, MaxSpans) }

AvailCells ==
    { Cell("th", st, <<"H", "G", "S", "S">>, links) :
        st \in CellStyles, links \in SeqsUpTo(AvailLinks, MaxLinks) }

InitAvail ==
    /\ pc = "avail.start"
    /\ gen \in Gens
    /\ cell \in AvailCells
    /\ avail = FALSE
    /\ IdleClean
    /\ IdleShape
    /\ IdleFetch
    /\ IdleParse
    /\ IdleUi

\* the call game_available(th, gen) of parse_tutoring
GameAvailable ==
    /\ pc = "avail.start"
    /\ avail' = game_available(cell, gen)
    /\ pc' = "avail.done"
    /\ UNCHANGED <<gen, cell, cleanVars, shapeVars, fetchVars, parseVars, uiVars>>

NextAvail == GameAvailable

SpecAvail == InitAvail /\ [][NextAvail]_vars

-----------------------------------------------------------------------------
(* Properties of game_available                                            *)

\* A style that sets a white colour in one of the two accepted notations.
WhiteNotation(style) ==
    Contains(<<"#", "F", "F", "F", "F", "F", "F">>, Upper(style)) \/ Contains(<<"#", "F", "F", "F">>, style)

\* A style that sets a white background, in any letter case.
WhiteBackgroundStyle(style) ==
    \/ Contains(<<"r", "g", "b", "(", "2", "5", "5", ",", " ", "2", "5", "5", ",", " ", "2", "5", "5", ")">>, style)
    \/ Contains(<<"B", "A", "C", "K", "G", "R", "O", "U", "N", "D", ":", "#", "F", "F", "F">>, Upper(style))
    \/ Contains(<<"B", "A", "C", "K", "G", "R", "O", "U", "N", "D", ":", " ", "#", "F", "F", "F">>, Upper(style))

\* C4 (as claimed): for generations 6 and 7 a cell is available iff it
\* contains a link that contains a span whose style carries a white colour;
\* for every other generation iff it has no white background style and
\* contains a link, so that a white background gives false even with a link.
C4_AvailabilityRule ==
    pc = "avail.done" =>
        avail = IF gen \in {6, 7}
                THEN \E i \in 1..Len(cell.links) :
                        \E j \in 1..Len(cell.links[i].spans) :
                            WhiteNotation(cell.links[i].spans[j].style)
                ELSE ~WhiteBackgroundStyle(cell.style) /\ cell.links # <<>>



-----------------------------------------------------------------------------
(* Scenario: the shape of one table                                        *)

Th(text) == Cell("th", <<>>, text, <<>>)
Td(text) == Cell("td", <<>>, text, <<>>)

\* Most cells in an enumerated row.
MaxRowCells == 3

\* The header labels the enumerated rows are built from: "Move" in two
\* letter cases and with surrounding whitespace, a label that only contains
\* "move", and labels for the type, the category and the level.
ShapeLabels ==
    { <<"M", "o", "v", "e">>, <<"M", "O", "V", "E">>, <<" ", "M", "o", "v", "e", "\n">>, <<"M", "o", "v", "e", "s">>,
      <<"T", "y", "p", "e">>, <<"C", "a", "t", ".">>, <<"L", "e", "v", "e", "l">> }

ShapeCells == {Th(l) : l \in ShapeLabels} \cup {Td(<<"1">>)}

ShapeRows == SeqsUpTo(ShapeCells, MaxRowCells)

\* The two documented header rows.
LevelHeaderRow ==
    << Th(<<"L", "e", "v", "e", "l">>), Th(<<"M", "o", "v", "e">>), Th(<<"T", "y", "p", "e">>),
       Th(<<"P", "o", "w", "e", "r">>), Th(<<"A", "c", "c", "u", "r", "a", "c", "y">>), Th(<<"P", "P">>) >>

CatHeaderRow ==
    << Th(<<"M", "o", "v", "e">>), Th(<<"T", "y", "p", "e">>), Th(<<"C", "a", "t", ".">>),
       Th(<<"P", "w", "r", ".">>), Th(<<"A", "c", "c", ".">>), Th(<<"P", "P">>) >>

\* Rows put before or after an enumerated row: a title row, a row of data
\* cells, and a header row of its own.
DecoyRows ==
    { << Th(<<"G", "e", "n", "e", "r", "a", "t", "i", "o", "n", " ", "I">>) >>,
      << Td(<<"1">>), Td(<<"T", "a", "c", "k", "l", "e">>), Td(<<"N", "o", "r", "m", "a", "l">>) >>,
      LevelHeaderRow }

ShapeTables ==
    {<<r>> : r \in ShapeRows}
      \cup {<<d, r>> : d \in DecoyRows, r \in ShapeRows}
      \cup {<<r, d>> : d \in DecoyRows, r \in ShapeRows}
      \cup {<<LevelHeaderRow>>, <<CatHeaderRow>>}

InitShape ==
    /\ pc = "shape.start"
    /\ table \in ShapeTables
    /\ shape = NoShape
    /\ IdleClean
    /\ IdleAvail
    /\ IdleFetch
    /\ IdleParse
    /\ IdleUi

\* the opening of a section parser on the table
Classify ==
    /\ pc = "shape.start"
    /\ shape' = table_shape(table)
    /\ pc' = "shape.done"
    /\ UNCHANGED <<table, cleanVars, availVars, fetchVars, parseVars, uiVars>>

NextShape == Classify

SpecShape == InitShape /\ [][NextShape]_vars

-----------------------------------------------------------------------------
(* Properties of the table shape                                           *)

\* The visible labels of the header cells of row i (1-based) of the table.
HeaderLabels(tbl, i) ==
    LET ths == CellsTagged(tbl[i], "th")
    IN  [k \in 1..Len(ths) |-> clean_text(ths[k])]

\* Row i has at least 3 header cells and their labels, joined, contain
\* "move" and "type" in any letter case.
Qualifies(tbl, i) ==
    LET labels == HeaderLabels(tbl, i)
        joined == Lower(JoinWithSpace(labels))
    IN  /\ Cardinality({j \in 1..Len(tbl[i]) : tbl[i][j].tag = "th"}) >= 3
        /\ \E k \in 1..(Len(joined) - 3) : SubSeq(joined, k, k + 3) = <<"m", "o", "v", "e">>
        /\ \E k \in 1..(Len(joined) - 3) : SubSeq(joined, k, k + 3) = <<"t", "y", "p", "e">>

IsMoveLabel(l) == Len(l) = 4 /\ \A k \in 1..4 : LowerChar(l[k]) = <<"m", "o", "v", "e">>[k]

HasCatInside(l) ==
    \E k \in 1..(Len(l) - 2) :
        \A d \in 0..2 : LowerChar(l[k + d]) = <<"c", "a", "t">>[d + 1]

\* C5: the header row is the first row with at least 3 header cells whose
\* joined labels contain "move" and "type" in any letter case, and there is
\* none iff no row qualifies; the move column is the first label equal to
\* "Move" in any letter case, absent if there is none; the category flag is
\* set iff a label after the move column contains "cat".  The two
\* documented header rows give (1, no category) and (0, category).
C5_TableShape ==
    pc = "shape.done" =>
        /\ shape.hdr_idx = NoIndex <=> \A i \in 1..Len(table) : ~Qualifies(table, i)
        /\ shape.hdr_idx # NoIndex =>
             /\ shape.hdr_idx \in 0..(Len(table) - 1)
             /\ Qualifies(table, shape.hdr_idx + 1)
             /\ \A i \in 1..shape.hdr_idx : ~Qualifies(table, i)
             /\ shape.headers_text = HeaderLabels(table, shape.hdr_idx + 1)
        /\ shape.move_idx = NoIndex <=>
             \A k \in 1..Len(shape.headers_text) : ~IsMoveLabel(shape.headers_text[k])
        /\ shape.move_idx # NoIndex =>
             /\ shape.move_idx \in 0..(Len(shape.headers_text) - 1)
             /\ IsMoveLabel(shape.headers_text[shape.move_idx + 1])
             /\ \A k \in 1..shape.move_idx : ~IsMoveLabel(shape.headers_text[k])
             /\ shape.cat <=>
                  \E k \in (shape.move_idx + 2)..Len(shape.headers_text) :
                      HasCatInside(shape.headers_text[k])
        /\ table = <<LevelHeaderRow>> => shape.move_idx = 1 /\ ~shape.cat
        /\ table = <<CatHeaderRow>> => shape.move_idx = 0 /\ shape.cat

\* C5 witness: a table whose first row does not qualify and whose second
\* row does, with a label that only contains "move" before the move column,
\* which is found in another letter case.
C5_Witness ==
    /\ pc = "shape.done"
    /\ shape.hdr_idx = 1
    /\ shape.move_idx = 1
    /\ ~shape.cat
    /\ shape.headers_text = << <<"M", "o", "v", "e", "s">>, <<"M", "O", "V", "E">>, <<"T", "y", "p", "e">> >>







-----------------------------------------------------------------------------
(* Scenario: one run of the dashboard for a page and a generation          *)
(*                                                                         *)
(* The page is a sequence of blocks: game headings, the introduction of a  *)
(* generation 8 page, sections (a heading and the table after it) and game *)
(* sections (a game heading, a section heading and the table after it).    *)
(* The rows, cells and links inside a table carry no id and are none of    *)
(* the elements the scans look for, so a table stands as one element.      *)

\* Most blocks in an enumerated page.
MaxBlocks == 2

\* One generation with a single game, and the two with several.
SelectableGens == {1, 7, 8}

MoveCell(name) ==
    Cell("td", <<>>, name,
         << Link(<<"/", "w", "i", "k", "i", "/">> \o name \o <<"_", "(", "m", "o", "v", "e", ")">>, name \o <<" ", "(", "m", "o", "v", "e", ")">>, <<>>) >>)

TypeCell(name) ==
    Cell("td", <<>>, name,
         << Link(<<"/", "w", "i", "k", "i", "/">> \o name \o <<"_", "(", "t", "y", "p", "e", ")">>, name \o <<" ", "(", "t", "y", "p", "e", ")">>, <<>>) >>)

LevelRow(level, move, type, pwr, acc, pp) ==
    << Td(level), MoveCell(move), TypeCell(type), Td(pwr), Td(acc), Td(pp) >>

TackleRow == LevelRow(<<"1">>, <<"T", "a", "c", "k", "l", "e">>, <<"N", "o", "r", "m", "a", "l">>, <<"4", "0">>, <<"1", "0", "0">>, <<"3", "5">>)
GrowlRow == LevelRow(<<"1">>, <<"G", "r", "o", "w", "l">>, <<"N", "o", "r", "m", "a", "l">>, <<"-">>, <<"1", "0", "0">>, <<"4", "0">>)

LevelupHeader ==
    << Th(<<"L", "e", "v", "e", "l">>), Th(<<"M", "o", "v", "e">>), Th(<<"T", "y", "p", "e">>), Th(<<"P", "w", "r", ".">>), Th(<<"A", "c", "c", ".">>), Th(<<"P", "P">>) >>

TmHeader ==
    << Th(<<>>), Th(<<"T", "M">>), Th(<<"M", "o", "v", "e">>), Th(<<"T", "y", "p", "e">>), Th(<<"P", "w", "r", ".">>), Th(<<"A", "c", "c", ".">>), Th(<<"P", "P">>) >>

DynamicpunchRow ==
    << Td(<<>>), Td(<<"T", "M", "0", "1">>), MoveCell(<<"D", "y", "n", "a", "m", "i", "c", "p", "u", "n", "c", "h">>), TypeCell(<<"F", "i", "g", "h", "t", "i", "n", "g">>),
       Td(<<"1", "0", "0">>), Td(<<"5", "0">>), Td(<<"5">>) >>

FooterRow == << Td(<<"B", "o", "l", "d", " ", "i", "n", "d", "i", "c", "a", "t", "e", "s", " ", "a", " ", "m", "o", "v", "e", " ", "t", "h", "a", "t", " ", "g", "e", "t", "s", " ", "S", "T", "A", "B">>) >>

ShortRow == << Td(<<"1">>), MoveCell(<<"T", "a", "c", "k", "l", "e">>) >>

\* The level-up table and the TM table of the documented scenario.
LevelupTable == << LevelupHeader, TackleRow, GrowlRow >>
TmTable == << TmHeader, DynamicpunchRow >>

\* A level-up table whose rows are all skipped.
SkippedTable == << LevelupHeader, ShortRow, FooterRow >>

\* A level-up table with a repeated header, a short row and a footer among
\* its rows.
MixedLevelupTable ==
    << LevelupHeader,
       << Td(<<"L", "e", "v", "e", "l">>), Td(<<"M", "o", "v", "e">>), Td(<<"T", "y", "p", "e">>), Td(<<"P", "w", "r", ".">>), Td(<<"A", "c", "c", ".">>), Td(<<"P", "P">>) >>,
       GrowlRow, ShortRow, TackleRow, FooterRow >>

\* A TM table with a row without a TM code and a row without a link to a
\* move article among its rows.
MixedTmTable ==
    << TmHeader,
       << Td(<<>>), Td(<<"-">>), MoveCell(<<"C", "u", "t">>), TypeCell(<<"N", "o", "r", "m", "a", "l">>), Td(<<"5", "0">>), Td(<<"9", "5">>), Td(<<"3", "0">>) >>,
       DynamicpunchRow,
       << Td(<<>>), Td(<<"H", "M", "0", "1">>), Td(<<"C", "u", "t">>), TypeCell(<<"N", "o", "r", "m", "a", "l">>), Td(<<"5", "0">>), Td(<<"9", "5">>), Td(<<"3", "0">>) >>,
       << Td(<<>>), Td(<<"T", "M", "0", "2">>), MoveCell(<<"H", "e", "a", "d", "b", "u", "t", "t">>), TypeCell(<<"N", "o", "r", "m", "a", "l">>), Td(<<"7", "0">>), Td(<<"1", "0", "0">>), Td(<<"1", "5">>) >> >>

\* A table whose first column is the move.
MoveFirstTable ==
    << << Th(<<"M", "o", "v", "e">>), Th(<<"T", "y", "p", "e">>), Th(<<"P", "w", "r", ".">>), Th(<<"A", "c", "c", ".">>), Th(<<"P", "P">>) >>,
       << MoveCell(<<"T", "a", "c", "k", "l", "e">>), TypeCell(<<"N", "o", "r", "m", "a", "l">>), Td(<<"4", "0">>), Td(<<"1", "0", "0">>), Td(<<"3", "5">>) >> >>

\* The elements of a block; a parent is a position in the block, or 0.
GameHeading(display) == << Node("h4", <<>>, display, 0, EmptyTable) >>

Paragraph(text) == << Node("p", <<>>, text, 0, EmptyTable) >>

Section(heading, id, label, between, tbl) ==
    << Node(heading, <<>>, <<>>, 0, EmptyTable),
       Node("span", id, label, 1, EmptyTable) >>
      \o between \o << Node("table", <<>>, <<>>, 0, tbl) >>

LevelupId == SECTION_KEYS[1].anchor_id
TmId == SECTION_KEYS[2].anchor_id

\* The elements with their parents counted from position base + 1.
Placed(block, base) ==
    [i \in 1..Len(block) |->
        [block[i] EXCEPT !.parent = IF @ = 0 THEN NoNode ELSE @ + base]]

\* The section of one game on a generation 7 page; the ids of the second
\* game end in "_2".
GameSection(display, suffix, tbl) ==
    GameHeading(display)
      \o Placed(Section("h5", LevelupId \o suffix, ByLevelingUp, <<>>, tbl), 1)

Blocks ==
    { GameHeading(GEN7_GAMES[1].display),
      GameHeading(GEN7_GAMES[2].display),
      Paragraph(<<"I", "t", " ", "i", "s", " ", "a", "v", "a", "i", "l", "a", "b", "l", "e", " ", "i", "n", " ", "S", "w", "o", "r", "d", " ", "a", "n", "d", " ", "S", "h", "i", "e", "l", "d", " ", "a", "n", "d", " ", "B", "r", "i", "l", "l", "i", "a", "n", "t", " ", "D", "i", "a", "m", "o", "n", "d", " ", "a", "n", "d", " ", "S", "h", "i", "n", "i", "n", "g", " ", "P", "e", "a", "r", "l", ".">>),
      Section("h4", LevelupId, ByLevelingUp, <<>>, LevelupTable),
      GameSection(GEN7_GAMES[1].display, <<>>, LevelupTable),
      GameSection(GEN7_GAMES[2].display, <<"_", "2">>, MixedLevelupTable),
      Section("h4", TmId, ByTMHM, <<>>, TmTable),
      Section("h4", LevelupId, ByLevelingUp, <<>>, SkippedTable),
      Section("h4", LevelupId, ByLevelingUp, Paragraph(<<"S", "w", "S", "h">>), LevelupTable),
      Section("h4", LevelupId, ByLevelingUp, <<>>, MoveFirstTable),
      Section("h4", LevelupId, ByLevelingUp, <<>>, MixedLevelupTable),
      Section("h4", TmId, ByTMHM, <<>>, MixedTmTable) }

RECURSIVE PageOf(_, _)
PageOf(blocks, base) ==
    IF blocks = <<>> THEN <<>>
    ELSE Placed(Head(blocks), base)
           \o PageOf(Tail(blocks), base + Len(Head(blocks)))

Pages == {PageOf(blocks, 0) : blocks \in SeqsUpTo(Blocks, MaxBlocks)}

\* The page of the documented scenario.
ScenarioPage ==
    PageOf(<< Section("h4", LevelupId, ByLevelingUp, <<>>, LevelupTable),
              Section("h4", TmId, ByTMHM, <<>>, TmTable) >>, 0)

InitFetch ==
    /\ pc = "fetch.start"
    /\ selected_gen \in SelectableGens
    /\ \/ response = "200" /\ document \in Pages
       \/ response \in Responses \ {"200"} /\ document = <<>>
    /\ result = NoResult
    /\ displayed = PyNone
    /\ shown = "nothing"
    /\ IdleClean
    /\ IdleAvail
    /\ IdleShape
    /\ IdleParse
    /\ IdleUi

\* result = fetch_learnset_multi_game(selected_pokemon, selected_gen)
Fetch ==
    /\ pc = "fetch.start"
    /\ result' = fetch_learnset_multi_game(response, document, selected_gen)
    /\ pc' = "fetch.returned"
    /\ UNCHANGED <<response, document, selected_gen, displayed, shown,
                   cleanVars, availVars, shapeVars, parseVars, uiVars>>

\* The two warnings, or the tables.
Outcome(secs) ==
    IF secs.type = "NoneType" THEN "No learnset page found"
    ELSE IF ~Truthy(secs) THEN "Page exists but no tables could be parsed"
    ELSE "tables"

\* The result handling: an exception of the call is not caught; the game is
\* the one selected in the radio group.
ShowResult ==
    /\ pc = "fetch.returned"
    /\ pc' = "fetch.shown"
    /\ IF result.branch = "raise"
       THEN displayed' = displayed /\ shown' = "exception"
       ELSE IF result.value.type = "NoneType"
       THEN displayed' = displayed /\ shown' = "No learnset page found"
       ELSE IF is_multi_game_result(result.value)
       THEN \E i \in 1..Len(result.value.items) :
                /\ displayed' = WithoutDisplay(result.value.items[i].value)
                /\ shown' = Outcome(WithoutDisplay(result.value.items[i].value))
       ELSE displayed' = result.value /\ shown' = Outcome(result.value)
    /\ UNCHANGED <<response, document, selected_gen, result,
                   cleanVars, availVars, shapeVars, parseVars, uiVars>>

NextFetch == Fetch \/ ShowResult

SpecFetch == InitFetch /\ [][NextFetch]_vars


-----------------------------------------------------------------------------
(* Properties of the run                                                   *)

\* The call has returned a value: it was made and no exception left it.
HasReturned == pc # "fetch.start" /\ result.branch # "raise"

\* A mapping from game key to a nested section mapping.
GameKeyed(r) ==
    /\ r.type = "dict"
    /\ r.items # <<>>
    /\ \A i \in 1..Len(r.items) :
          /\ r.items[i].value.type = "dict"
          /\ \E k \in 1..2 : r.items[i].key \in {GEN7_GAMES[k].key, GEN8_GAMES[k].key}

\* A mapping from section label to table.
FlatMapping(r) ==
    /\ r.type = "dict"
    /\ \A i \in 1..Len(r.items) :
          /\ r.items[i].value.type = "str"
          /\ \E k \in 1..Len(SECTION_KEYS) : r.items[i].key = SECTION_KEYS[k].label

\* C6: the discriminant is true exactly for the results of the generation 7
\* and the generation 8 strategy, which are keyed by game with a section
\* mapping for each game, and false for what the single-game pipeline
\* returns, a flat mapping from label to table or nothing, for the absent
\* result of a missing page or a failed request, and for the empty result.
C6_Discriminant ==
    /\ ~is_multi_game_result(PyNone)
    /\ ~is_multi_game_result(PyDict(<<>>))
    /\ HasReturned =>
          /\ is_multi_game_result(result.value) <=> result.branch \in {"gen7", "gen8"}
          /\ result.branch \in {"gen7", "gen8"} => GameKeyed(result.value)
          /\ result.branch = "single" =>
                result.value.type = "NoneType" \/ FlatMapping(result.value)
          /\ result.branch \in {"404", "RequestException"} =>
                result.value.type = "NoneType"

\* C6 witness: the generation 7 strategy has returned a result keyed by
\* both games, and the discriminant is true for it.
C6_Witness ==
    /\ pc = "fetch.shown"
    /\ result.branch = "gen7"
    /\ Len(result.value.items) = 2
    /\ is_multi_game_result(result.value)

\* The tables of a section mapping.
SectionTables(m) ==
    {m.items[i].value : i \in {j \in 1..Len(m.items) : m.items[j].key # DisplayKey}}

\* The tables of a result, flat or keyed by game.
ResultTables(r) ==
    IF r.type # "dict" THEN {}
    ELSE IF r.items # <<>> /\ r.items[1].value.type = "dict"
    THEN UNION {SectionTables(r.items[i].value) : i \in 1..Len(r.items)}
    ELSE SectionTables(r)

\* The table the single-game pipeline finds for the k-th section key, or
\* NoNode.
LocatedTable(k) ==
    LET anchor == _find_section_anchor(document, SECTION_KEYS[k].label,
                                       SECTION_KEYS[k].anchor_id)
    IN  IF anchor = NoNode THEN NoNode ELSE _find_table_after(document, anchor)

\* The rows after the header row of a table that has one.
DataRows(tbl) == SubSeq(tbl, _find_header_row(tbl) + 2, Len(tbl))

\* The rows of a level-up table that are accepted: not a footer, with at
\* least two cells after the move column, and not a repetition of the
\* header as the first of these.
AcceptedLevelup(tbl) ==
    LET s == table_shape(tbl)
        c == SelectSeq(DataRows(tbl),
                       LAMBDA r : ~_is_footer_row(r) /\ Len(r) >= s.move_idx + 3)
    IN  IF c # <<>> /\ clean_text(c[1][1]) \in {<<"L", "e", "v", "e", "l">>, s.headers_text[1]}
        THEN Tail(c) ELSE c

\* The rows of a TM table that are accepted, without their empty first
\* cell: not a footer, with at least four cells, one of them a TM code and
\* one of them linked to a move article.
AcceptedTm(tbl) ==
    LET full(r) == /\ ~_is_footer_row(r)
                   /\ Len(WithoutEmptyLead(r)) >= 4
                   /\ \E j \in 1..Len(WithoutEmptyLead(r)) :
                         IsTmCode(clean_text(WithoutEmptyLead(r)[j]))
                   /\ \E j \in 1..Len(WithoutEmptyLead(r)) :
                         HasMoveLink(WithoutEmptyLead(r)[j])
        rows == SelectSeq(DataRows(tbl), full)
    IN  [k \in 1..Len(rows) |-> WithoutEmptyLead(rows[k])]

\* The accepted rows of a table read as that of the k-th section key.
AcceptedIn(tbl, k) ==
    IF _find_header_row(tbl) = NoIndex THEN <<>>
    ELSE IF k = 1 THEN AcceptedLevelup(tbl)
    ELSE AcceptedTm(tbl)

\* The accepted rows of the table found at a node, if any.
AcceptedAt(loc, k) ==
    IF loc = NoNode THEN <<>> ELSE AcceptedIn(document[loc].table, k)

\* The accepted rows of the table found for the k-th section key.
AcceptedRows(k) == AcceptedAt(LocatedTable(k), k)

\* C7: no table of a returned result is without rows, in the flat mapping
\* and in the section mapping of each game; and a section whose table is
\* found and has no accepted row has no entry in the flat mapping.
C7_NoEmptyTable ==
    HasReturned =>
        /\ \A t \in ResultTables(result.value) : t.rows # <<>>
        /\ \A k \in 1..2 :
              LET loc == LocatedTable(k)
              IN  /\ result.branch = "single"
                  /\ result.value.type = "dict"
                  /\ loc # NoNode
                  /\ AcceptedAt(loc, k) = <<>>
                  => ~HasKey(result.value, SECTION_KEYS[k].label)

\* C7 witness: the level-up table of the page is found and all its rows
\* are skipped; the result has the TM section and no level-up section.
C7_Witness ==
    /\ pc = "fetch.shown"
    /\ result.branch = "single"
    /\ result.value.type = "dict"
    /\ LocatedTable(1) # NoNode
    /\ document[LocatedTable(1)].table = SkippedTable
    /\ ~HasKey(result.value, ByLevelingUp)
    /\ HasKey(result.value, ByTMHM)

\* The texts of the cells of the output rows.
OutTexts(html) ==
    [k \in 1..Len(html.rows) |->
        [j \in 1..Len(html.rows[k]) |-> html.rows[k][j].text]]

\* The first n texts, with a dash for each that is missing.
Padded(texts, n) ==
    [j \in 1..n |-> IF j <= Len(texts) THEN texts[j] ELSE <<Dash>>]

\* The columns of the common part: move, type, category if any, power,
\* accuracy and PP.
CommonColumns(s) == IF s.cat THEN 6 ELSE 5

\* What a level-up row shows: the cells up to the PP column.
LevelupTexts(s, row) ==
    Padded(CleanTexts(row), s.move_idx + CommonColumns(s))

\* What a TM row shows: its TM code and the cells from the linked move on.
TmTexts(s, cells) ==
    LET code == CHOOSE j \in 1..Len(cells) :
                   /\ IsTmCode(clean_text(cells[j]))
                   /\ \A i \in 1..(j - 1) : ~IsTmCode(clean_text(cells[i]))
        move == CHOOSE j \in 1..Len(cells) :
                   /\ HasMoveLink(cells[j])
                   /\ \A i \in 1..(j - 1) : ~HasMoveLink(cells[i])
    IN  <<clean_text(cells[code])>>
          \o Padded(CleanTexts(SubSeq(cells, move, Len(cells))), CommonColumns(s))

\* The texts the accepted rows of a table of shape s should show.
TextsOf(s, rows, k) ==
    [n \in 1..Len(rows) |->
        IF k = 1 THEN LevelupTexts(s, rows[n]) ELSE TmTexts(s, rows[n])]

\* The texts the table of the k-th section key should show.
TextsIn(tbl, k) == TextsOf(table_shape(tbl), AcceptedIn(tbl, k), k)

\* The texts the k-th section should show, row by row.
ExpectedTexts(k) == TextsIn(document[LocatedTable(k)].table, k)

\* C8: in the result of the single-game pipeline the level-up section and
\* the TM section show one row for each accepted row of their table, in the
\* order of the table; the documented page gives the two level-up rows
\* Tackle and Growl in this order and one TM row, whose code is "TM01".
C8_RowsInOrder ==
    HasReturned /\ result.branch = "single" /\ result.value.type = "dict" =>
        /\ \A k \in 1..2 :
              HasKey(result.value, SECTION_KEYS[k].label) =>
                 OutTexts(DictGet(result.value, SECTION_KEYS[k].label)) = ExpectedTexts(k)
        /\ document = ScenarioPage =>
              /\ HasKey(result.value, ByLevelingUp)
              /\ OutTexts(DictGet(result.value, ByLevelingUp))
                   = << <<<<"1">>, <<"T", "a", "c", "k", "l", "e">>, <<"N", "o", "r", "m", "a", "l">>, <<"4", "0">>, <<"1", "0", "0">>, <<"3", "5">>>>,
                        <<<<"1">>, <<"G", "r", "o", "w", "l">>, <<"N", "o", "r", "m", "a", "l">>, <<"-">>, <<"1", "0", "0">>, <<"4", "0">>>> >>
              /\ HasKey(result.value, ByTMHM)
              /\ OutTexts(DictGet(result.value, ByTMHM))
                   = << <<<<"T", "M", "0", "1">>, <<"D", "y", "n", "a", "m", "i", "c", "p", "u", "n", "c", "h">>, <<"F", "i", "g", "h", "t", "i", "n", "g">>, <<"1", "0", "0">>, <<"5", "0">>, <<"5">>>> >>

\* C8 witness: the documented page has been fetched for a generation with
\* one game, and its two sections are shown with 2 rows and 1 row.
C8_Witness ==
    /\ pc = "fetch.shown"
    /\ document = ScenarioPage
    /\ selected_gen = 1
    /\ shown = "tables"
    /\ Len(DictGet(displayed, ByLevelingUp).rows) = 2
    /\ Len(DictGet(displayed, ByTMHM).rows) = 1

\* C9 (as claimed): the call returns None only when the page is missing or
\* the request failed; for a page that exists the result is not None, and
\* the "No learnset page found" warning is shown only for a missing page
\* or a failed request.
C9_AbsentOnlyOnFailure ==
    /\ HasReturned /\ response = "200" => result.value.type # "NoneType"
    /\ pc = "fetch.shown" /\ shown = "No learnset page found" => response # "200"

\* The buckets of a game-keyed result that hold at least one section.
Populated(r) ==
    {i \in 1..Len(r.items) : WithoutDisplay(r.items[i].value).items # <<>>}

\* C10 (as claimed): a game-keyed result has at least 2 buckets with a
\* section, and every other result of an existing page is a flat mapping.
C10_TwoPopulated ==
    HasReturned /\ response = "200" =>
        IF is_multi_game_result(result.value)
        THEN Cardinality(Populated(result.value)) >= 2
        ELSE FlatMapping(result.value)

\* The games the strategy of the generation detects: the game headings of
\* a generation 7 page, the games named by the introduction of a generation
\* 8 page.
DetectedGames(g) ==
    IF g = 7 THEN Len(_find_game_headers(document, g))
    ELSE IF g = 8 THEN Len(_detect_gen8_games(document))
    ELSE 0

\* The buckets the strategy of the generation fills.
StrategyBuckets(g) ==
    IF g = 7
    THEN Gen7Results(document, _find_game_headers(document, g), 1, PyDict(<<>>))
    ELSE Gen8Results(document, g, 1, Gen8Init(_detect_gen8_games(document)))

\* C10 (amended): the result is keyed by game exactly when the generation
\* is 7 or 8, its strategy detects at least 2 games and fills at least 1
\* bucket with a section, and it is then the buckets of the strategy;
\* otherwise the result is that of the single-game pipeline over the whole
\* page: a flat mapping that is not empty, or None.
C10_OnePopulated ==
    HasReturned /\ response = "200" =>
        LET buckets == StrategyBuckets(selected_gen)
        IN  IF /\ selected_gen \in {7, 8}
               /\ DetectedGames(selected_gen) >= 2
               /\ Populated(buckets) # {}
            THEN /\ is_multi_game_result(result.value)
                 /\ result.value = buckets
            ELSE /\ ~is_multi_game_result(result.value)
                 /\ result = Fallback(document, selected_gen)
                 /\ \/ result.value.type = "NoneType"
                    \/ FlatMapping(result.value) /\ result.value.items # <<>>

\* C10 witness: the generation 8 strategy has returned a result with a
\* bucket for each of the two games, of which one holds a section.
C10_Witness ==
    /\ pc = "fetch.shown"
    /\ result.branch = "gen8"
    /\ Len(result.value.items) = 2
    /\ Cardinality(Populated(result.value)) = 1

-----------------------------------------------------------------------------
(* Scenario: the five section parsers on one table                         *)

\* Most rows after the header row of an enumerated table.
MaxParseRows == 2

ParseGens == {1, 7}

\* A header row without a label equal to "Move": its text holds "move" and
\* "type", so that it is found as the header row.
MovesHeader == << Th(<<"G", "a", "m", "e">>), Th(<<"M", "o", "v", "e", "s">>), Th(<<"T", "y", "p", "e">>) >>

ParseHeaders == {LevelupHeader, TmHeader, CatHeaderRow, MovesHeader}

\* A row of data cells that repeats the labels of the level-up header.
RepeatedHeaderRow ==
    << Td(<<"L", "e", "v", "e", "l">>), Td(<<"M", "o", "v", "e">>), Td(<<"T", "y", "p", "e">>), Td(<<"P", "w", "r", ".">>), Td(<<"A", "c", "c", ".">>), Td(<<"P", "P">>) >>

\* A TM row of 4 cells, without an empty leading cell.
TmShortRow ==
    << Td(<<"T", "M", "0", "2">>), MoveCell(<<"H", "e", "a", "d", "b", "u", "t", "t">>), TypeCell(<<"N", "o", "r", "m", "a", "l">>), Td(<<"7", "0">>) >>

\* The game cell of a tutoring row.
GameCell(name) == Cell("th", <<>>, name, << Link(GameHref, name, <<>>) >>)

\* Tutoring rows with one and with two game cells; the second has no cell
\* after the move.
TutorRow ==
    << GameCell(<<"X", "Y">>), MoveCell(<<"S", "n", "o", "r", "e">>), TypeCell(<<"N", "o", "r", "m", "a", "l">>), Td(<<"5", "0">>), Td(<<"1", "0", "0">>), Td(<<"1", "5">>) >>
TutorShortRow == << GameCell(<<"X", "Y">>), GameCell(<<"O", "R", "A", "S">>), MoveCell(<<"S", "n", "o", "r", "e">>) >>

\* A row of a table whose first column is the move, with a category.
MoveFirstRow ==
    << MoveCell(<<"T", "a", "c", "k", "l", "e">>), TypeCell(<<"N", "o", "r", "m", "a", "l">>), Td(<<"P", "h", "y", "s", "i", "c", "a", "l">>), Td(<<"4", "0">>), Td(<<"1", "0", "0">>), Td(<<"3", "5">>) >>

ParseRows ==
    { TackleRow, RepeatedHeaderRow, ShortRow, FooterRow, DynamicpunchRow,
      TmShortRow, TutorRow, TutorShortRow, MoveFirstRow }

ParseTables ==
    {<<h>> \o rows : h \in ParseHeaders, rows \in SeqsUpTo(ParseRows, MaxParseRows)}

\* The answers of the move API: no connection, a response that is not ok,
\* a body that is not JSON, a move without an English entry and a move with
\* one.
ApiReplies ==
    { ApiFailure,
      ApiReply(FALSE, InvalidJson),
      ApiReply(TRUE, InvalidJson),
      ApiReply(TRUE, MoveData(<< EffectEntry("fr", <<"P", "e", "u", "t", " ", "a", "p", "e", "u", "r", "e", "r", ".">>) >>, <<>>)),
      ApiReply(TRUE, MoveData(<< EffectEntry("fr", <<"P", "e", "u", "t", " ", "a", "p", "e", "u", "r", "e", "r", ".">>),
                                 EffectEntry("en", <<"H", "a", "s", " ", "a", " ", "$", "e", "f", "f", "e", "c", "t", "_", "c", "h", "a", "n", "c", "e", "%", " ", "c", "h", "a", "n", "c", "e", " ", "t", "o", " ", "f", "l", "i", "n", "c", "h", ".">>) >>,
                              <<"3", "0">>)) }

InitParse ==
    /\ pc = "parse.start"
    /\ table \in ParseTables
    /\ shape = NoShape
    /\ gen \in ParseGens
    /\ cell = EmptyCell
    /\ avail = FALSE
    /\ IdleParse
    /\ IdleUi
    /\ IdleClean
    /\ IdleFetch

\* html = parser(tbl, gen), for each of the five parsers
ParseTable ==
    /\ pc = "parse.start"
    /\ parsed' = [levelup   |-> parse_levelup(table, gen),
                  tm_hm     |-> parse_tm_hm(table, gen),
                  breeding  |-> parse_breeding(table, gen),
                  tutoring  |-> parse_tutoring(table, gen),
                  prior_evo |-> parse_prior_evo(table, gen)]
    /\ pc' = "parse.done"
    /\ UNCHANGED <<table, shape, show_descriptions, show_extended_desc, pokeapi,
                   cleanVars, availVars, fetchVars, uiVars>>

NextParse == ParseTable

SpecParse == InitParse /\ [][NextParse]_vars

-----------------------------------------------------------------------------
(* Scenario: the parsers with the move descriptions switched on or off     *)

DescribedRows == {TackleRow, GrowlRow, RepeatedHeaderRow, ShortRow, DynamicpunchRow}

DescribedTables ==
    {<<h>> \o rows : h \in {LevelupHeader, TmHeader},
                     rows \in SeqsUpTo(DescribedRows, MaxParseRows)}

\* The second checkbox is shown when the first is ticked.
InitDescribe ==
    /\ pc = "parse.start"
    /\ table \in DescribedTables
    /\ shape = NoShape
    /\ gen \in ParseGens
    /\ cell = EmptyCell
    /\ avail = FALSE
    /\ show_descriptions \in BOOLEAN
    /\ show_extended_desc \in (IF show_descriptions THEN BOOLEAN ELSE {FALSE})
    /\ pokeapi \in (IF show_descriptions THEN ApiReplies ELSE {NoReply})
    /\ parsed = <<>>
    /\ IdleClean
    /\ IdleFetch
    /\ IdleUi

SpecDescribe == InitDescribe /\ [][NextParse]_vars

-----------------------------------------------------------------------------
(* Properties of the section parsers                                       *)

HasParsed == pc = "parse.done"

\* The names of the five parsers in the record of their results.
ParserNames == {"levelup", "tm_hm", "breeding", "tutoring", "prior_evo"}

\* The table without the rows after its header row that Drop holds of.
WithoutRows(tbl, Drop(_)) ==
    <<tbl[1]>> \o SelectSeq(Tail(tbl), LAMBDA r : ~Drop(r))

\* The row has fewer cells than the move column index + 3.
IsShort(row) == Len(row) < table_shape(table).move_idx + 3

\* The row has fewer than 4 cells after its empty leading cell.
IsShortTm(row) == Len(WithoutEmptyLead(row)) < 4

\* The rows the tutoring parser outputs: with a game cell and a data cell,
\* one of the data cells linked to a move article.
TutoredRows(tbl) ==
    SelectSeq(Tail(tbl), LAMBDA r : /\ ~TutoringSkips(r)
                                    /\ MoveLinkIdxFrom(CellsTagged(r, "td"), 0) # NoIndex)

\* C11 (as claimed): in each of the five parsers a row with fewer cells than
\* the move column index + 3 produces no output row: a parser outputs at
\* most as many rows as the table has rows that are not short.
C11_ShortRowSkipped ==
    HasParsed /\ table_shape(table).move_idx # NoIndex =>
        \A p \in ParserNames :
            parsed[p].type = "str" =>
                Len(parsed[p].rows) <= Len(WithoutRows(table, IsShort)) - 1

\* C11 (amended): the level-up, breeding and prior-evolution parsers give
\* for a table what they give for the table without its rows of fewer cells
\* than the move column index + 3; the TM/HM parser gives what it gives for
\* the table without its rows of fewer than 4 cells, counted after an empty
\* leading cell; the tutoring parser outputs every row with a game cell and
\* a linked move, however short.
C11_ShortRowRule ==
    HasParsed =>
        /\ table_shape(table).move_idx # NoIndex =>
              /\ parsed.levelup = parse_levelup(WithoutRows(table, IsShort), gen)
              /\ parsed.breeding = parse_breeding(WithoutRows(table, IsShort), gen)
              /\ parsed.prior_evo = parse_prior_evo(WithoutRows(table, IsShort), gen)
        /\ parsed.tm_hm = parse_tm_hm(WithoutRows(table, IsShortTm), gen)
        /\ IF TutoredRows(table) = <<>> THEN parsed.tutoring.type = "NoneType"
           ELSE /\ parsed.tutoring.type = "str"
                /\ Len(parsed.tutoring.rows) = Len(TutoredRows(table))

\* C11 witness: a level-up table with a row of 2 cells before a full row
\* has been parsed: one row is output, that of the full row.
C11_Witness ==
    /\ HasParsed
    /\ table = <<LevelupHeader, ShortRow, TackleRow>>
    /\ parsed.levelup.type = "str"
    /\ Len(parsed.levelup.rows) = 1
    /\ parsed.levelup.rows[1][2].text = <<"T", "a", "c", "k", "l", "e">>

\* The rows after the header row that parse_levelup takes for data rows:
\* no footer, and with a cell after the type.
LevelupCandidates(tbl) ==
    SelectSeq(Tail(tbl), LAMBDA r : ~_is_footer_row(r) /\ ~IsShort(r))

\* The first prefix value of the row is "Level" or the first label of the
\* header.
ReadsAsHeader(row) ==
    clean_text(row[1]) \in {<<"L", "e", "v", "e", "l">>, table_shape(table).headers_text[1]}

\* 1 when the first data row of the table is excluded, else 0.
Excluded(tbl) ==
    IF LevelupCandidates(tbl) # <<>> /\ ReadsAsHeader(LevelupCandidates(tbl)[1])
    THEN 1 ELSE 0

\* The output row of the i-th data row shows its first prefix value and its
\* move.
ShowsRow(out, cand, i, d) ==
    /\ out[i - d][1].text = clean_text(cand[i][1])
    /\ out[i - d][table_shape(table).move_idx + 1].text
         = clean_text(cand[i][table_shape(table).move_idx + 1])

\* The rows of a result; none when it is None.
RowsOf(r) == IF r.type = "str" THEN r.rows ELSE <<>>

\* C12: of the data rows of a level-up table the first is left out of the
\* output exactly when its first prefix value is "Level" or the first label
\* of the header; every other data row has its output row, in the order of
\* the table, also when its first prefix value is "Level".
C12_FirstRowGuard ==
    HasParsed /\ table_shape(table).move_idx >= 1 =>
        /\ parsed.levelup.type \in {"str", "NoneType"}
        /\ Len(RowsOf(parsed.levelup))
             = Len(LevelupCandidates(table)) - Excluded(table)
        /\ \A i \in (1 + Excluded(table))..Len(LevelupCandidates(table)) :
              ShowsRow(RowsOf(parsed.levelup), LevelupCandidates(table), i,
                       Excluded(table))

\* C12 witness: the header is repeated twice as data rows; the first is
\* left out and the second is output, "Level" being its first value.
C12_Witness ==
    /\ HasParsed
    /\ table = <<LevelupHeader, RepeatedHeaderRow, RepeatedHeaderRow>>
    /\ parsed.levelup.type = "str"
    /\ Len(parsed.levelup.rows) = 1
    /\ parsed.levelup.rows[1][1].text = <<"L", "e", "v", "e", "l">>

-----------------------------------------------------------------------------
(* Scenario: one run for a page with one section                           *)
(*                                                                         *)
(* The page is the introduction of a generation 8 page, the heading of the *)
(* level-up section and the elements that follow it: headings of a higher, *)
(* the same and a lower level, game markers and tables.                    *)

\* Most elements after the heading of the section.
MaxItems == 3

SectionGens == {1, 8}

Heading(name, text) == << Node(name, <<>>, text, 0, EmptyTable) >>

TableOf(tbl) == << Node("table", <<>>, <<>>, 0, tbl) >>

\* A table with the row of Growl alone, and one without a data cell.
GrowlTable == << LevelupHeader, GrowlRow >>
HeaderOnlyTable == << LevelupHeader >>

BdspLong == <<"B", "r", "i", "l", "l", "i", "a", "n", "t", " ", "D", "i", "a", "m", "o", "n", "d", " ", "a", "n", "d", " ", "S", "h", "i", "n", "i", "n", "g", " ", "P", "e", "a", "r", "l">>

Items ==
    { Heading("h2", <<"T", "r", "i", "v", "i", "a">>), Heading("h4", <<"B", "y", " ", "e", "v", "e", "n", "t">>),
      Heading("h5", <<"N", "o", "t", "e", "s">>),
      Paragraph(SwSh.key), Paragraph(BDSP.key), Paragraph(BdspLong),
      TableOf(LevelupTable), TableOf(GrowlTable), TableOf(HeaderOnlyTable) }

\* The introduction and the heading of the section, an h4 with the span
\* that carries the id.
SectionHead ==
    << Paragraph(<<"I", "t", " ", "i", "s", " ", "a", "v", "a", "i", "l", "a", "b", "l", "e", " ", "i", "n", " ", "S", "w", "o", "r", "d", " ", "a", "n", "d", " ", "S", "h", "i", "e", "l", "d", " ", "a", "n", "d", " ", "B", "r", "i", "l", "l", "i", "a", "n", "t", " ", "D", "i", "a", "m", "o", "n", "d", " ", "a", "n", "d", " ", "S", "h", "i", "n", "i", "n", "g", " ", "P", "e", "a", "r", "l", ".">>),
       << Node("h4", <<>>, <<>>, 0, EmptyTable),
          Node("span", LevelupId, ByLevelingUp, 1, EmptyTable) >> >>

SectionPages ==
    {PageOf(SectionHead \o items, 0) : items \in SeqsUpTo(Items, MaxItems)}

InitSection ==
    /\ pc = "fetch.start"
    /\ selected_gen \in SectionGens
    /\ response = "200"
    /\ document \in SectionPages
    /\ result = NoResult
    /\ displayed = PyNone
    /\ shown = "nothing"
    /\ IdleClean
    /\ IdleAvail
    /\ IdleShape
    /\ IdleParse
    /\ IdleUi

SpecSection == InitSection /\ [][NextFetch]_vars

-----------------------------------------------------------------------------
(* Properties of the run for one section                                   *)

\* The position of the heading of the section and of its span.
HeadingAt == Len(SectionHead[1]) + 1
AnchorAt == HeadingAt + 1

\* The level of a heading element, 0 for any other element.
LevelOf(name) ==
    CASE name = "h1" -> 1 [] name = "h2" -> 2 [] name = "h3" -> 3
      [] name = "h4" -> 4 [] name = "h5" -> 5 [] name = "h6" -> 6
      [] OTHER -> 0

\* The tables with a data cell after the heading of the section.
DataTablesAfter ==
    {k \in (HeadingAt + 1)..Len(document) :
        document[k].name = "table" /\ HasDataCell(document[k].table)}

\* The headings of the level of the section's heading or of a higher one
\* after it.
BoundariesAfter ==
    {k \in (HeadingAt + 1)..Len(document) :
        /\ LevelOf(document[k].name) > 0
        /\ LevelOf(document[k].name) <= LevelOf(document[HeadingAt].name)}

\* The first table with a data cell when no boundary comes before it.
TableOfSection ==
    IF /\ DataTablesAfter # {}
       /\ \A b \in BoundariesAfter : FirstOf(DataTablesAfter) < b
    THEN FirstOf(DataTablesAfter) ELSE NoNode

\* C13 (as claimed): the table found for the anchor of the section is the
\* first table with a data cell after the heading of the section, or none
\* when a heading of the same or a higher level comes before any such
\* table; the single-game pipeline shows the section only for that table.
C13_NoBindingAcrossBoundary ==
    HasReturned /\ result.branch = "single" =>
        /\ _find_table_after(document, AnchorAt) = TableOfSection
        /\ TableOfSection = NoNode => result.value.type = "NoneType"

\* C14 (as claimed): when the header row of the table has no label equal
\* to "Move", each of the five parsers returns None.
C14_NoMoveColumnNoResult ==
    /\ HasParsed
    /\ table_shape(table).hdr_idx # NoIndex
    /\ table_shape(table).move_idx = NoIndex
    => \A p \in ParserNames : parsed[p].type = "NoneType"

\* The span of the section: the elements after its anchor, up to the next
\* h4 heading.
InSpan(k) ==
    /\ k > AnchorAt
    /\ k <= Len(document)
    /\ \A j \in (AnchorAt + 1)..k : document[j].name # "h4"

\* The tables with a data cell in the span of the section.
SpanTables ==
    {k \in 1..Len(document) :
        InSpan(k) /\ document[k].name = "table" /\ HasDataCell(document[k].table)}

\* The key of the game a marker paragraph names, <<>> for any other text.
GameNamedBy(text) ==
    IF text = SwSh.key THEN SwSh.key
    ELSE IF text \in {BDSP.key, BdspLong} THEN BDSP.key
    ELSE <<>>

\* The game whose marker paragraph is right before element k, or <<>>.
MarkedFor(k) ==
    IF document[k - 1].name = "p" THEN GameNamedBy(NodeText(document, k - 1))
    ELSE <<>>

\* The tables of the section by game, as the generation 8 strategy finds
\* them.
SectionGameTables ==
    _find_gen8_section_tables(document, AnchorAt,
        _get_next_section_anchor(document, LevelupId, SECTION_KEYS))

\* C15 (as claimed): in the span of the section a table right after the
\* marker paragraph of a game is the table of that game (the last of them,
\* when the game has several), for "SwSh" and for "BDSP".
C15_MarkerAttribution ==
    HasReturned /\ selected_gen = 8 =>
        \A k \in SpanTables :
            /\ MarkedFor(k) # <<>>
            /\ \A j \in SpanTables : j > k => MarkedFor(j) # MarkedFor(k)
            => /\ HasKey(SectionGameTables, MarkedFor(k))
               /\ DictGet(SectionGameTables, MarkedFor(k)) = k

\* No paragraph that names a game comes before element k in the span.
Unmarked(k) ==
    \A j \in (AnchorAt + 1)..(k - 1) :
        document[j].name = "p" => GameNamedBy(NodeText(document, j)) = <<>>

\* What the level-up parser makes of the table at position k.
SectionOf(k) == parse_levelup(document[k].table, selected_gen)

\* The level-up section of the bucket of a game is that of the table at k.
BucketShows(game, k) ==
    /\ HasKey(result.value, game.key)
    /\ HasKey(DictGet(result.value, game.key), ByLevelingUp)
    /\ DictGet(DictGet(result.value, game.key), ByLevelingUp) = SectionOf(k)

TableFor(game, k) ==
    IF HasKey(SectionGameTables, game.key)
    THEN DictGet(SectionGameTables, game.key) ELSE k

LookupFails ==
    \/ pokeapi.kind = "raise"
    \/ ~pokeapi.ok
    \/ pokeapi.body.kind = "invalid"
    \/ EnglishEntry(pokeapi.body.effect_entries) = 0

\* Each row of the result has the empty description on its move.
EmptyDescriptions(r) ==
    \A i \in 1..Len(RowsOf(r)) :
        \A j \in 1..Len(RowsOf(r)[i]) :
            RowsOf(r)[i][j].kind = "move" => RowsOf(r)[i][j].title = <<>>

\* C17: with the descriptions switched on and a lookup that gives none, the
\* level-up parser raises nothing, outputs every data row of the table, and
\* each output row has the empty description.
C17_LookupNeverAborts ==
    HasParsed /\ show_descriptions /\ LookupFails
              /\ table_shape(table).move_idx >= 1 =>
        /\ parsed.levelup.type \in {"str", "NoneType"}
        /\ Len(RowsOf(parsed.levelup))
             = Len(LevelupCandidates(table)) - Excluded(table)
        /\ EmptyDescriptions(parsed.levelup)

\* C18: each of the five parsers gives for the table a table or None, and
\* raises nothing, wherever the column of the move is and however many cells
\* a row has.
C18_ParsersNeverRaise ==
    HasParsed =>
        \A p \in ParserNames : parsed[p].type \in {"str", "NoneType"}

\* Each row of the result has as many cells as the result has header labels.
Rectangular(r) ==
    \A i \in 1..Len(RowsOf(r)) : Len(RowsOf(r)[i]) = Len(r.headers)

\* C20: the table each of the five parsers outputs is rectangular.
C20_RectangularOutput ==
    HasParsed => \A p \in ParserNames : Rectangular(parsed[p])

-----------------------------------------------------------------------------
(* Scenario: the runs of the dashboard script                              *)
(*                                                                         *)
(* The script runs from its top once when the page is opened and once for  *)
(* each change of a widget; st.rerun() ends the run and starts it again.   *)
(* The session state outlives the runs. A run is followed through the      *)
(* sidebar, the controls and the call of fetch_learnset_multi_game.        *)

all_names == << "Bulbasaur", "Eevee" >>

UiGens == {1, 8}

\* The learnset page of a creature: the level-up table of Eevee has its
\* move in the first column.
LearnsetPage(name, g) ==
    IF name = "Eevee"
    THEN PageOf(<< Section("h4", LevelupId, ByLevelingUp, <<>>, MoveFirstTable) >>, 0)
    ELSE IF g = 8 THEN PageOf(SectionHead \o << TableOf(LevelupTable) >>, 0)
    ELSE ScenarioPage

\* What the move API may answer during a run.
UiReplies == { ApiFailure, ApiReply(FALSE, InvalidJson) }

\* name in st.session_state.roster
InRoster(name) == \E i \in 1..Len(roster) : roster[i] = name

\* st.session_state.roster.remove(name)
RosterWithout(name) == SelectSeq(roster, LAMBDA n : n # name)

Widget(kind, name) == [kind |-> kind, name |-> name]

\* The changes of a widget the user can make on the page as it is shown.
Changes ==
    { Widget("pokemon_select", all_names[i]) :
          i \in { j \in 1..Len(all_names) : all_names[j] # pokemon_select } }
    \cup { Widget("gen_select", ""), Widget("roster_chk", ""),
           Widget("show_descriptions", "") }
    \cup { Widget("show_extended_desc", "") : b \in { show_descriptions } \ { FALSE } }
    \cup { Widget("game_select", "") :
               b \in { result.branch # "raise" /\ is_multi_game_result(result.value) }
                        \ { FALSE } }
    \cup { Widget(k, roster[i]) : k \in {"rl", "rr"}, i \in 1..Len(roster) }

\* The page is opened: the first run of the script begins.
InitUi ==
    /\ pc = "ui.sidebar"
    /\ roster = <<>>
    /\ loading = FALSE
    /\ roster_lookup = ""
    /\ pokemon_select = all_names[1]
    /\ roster_chk = "unset"
    /\ clicked = NoClick
    /\ fetches = 0
    /\ selected_gen \in UiGens
    /\ response = "200"
    /\ document = <<>>
    /\ result = NoResult
    /\ displayed = PyNone
    /\ shown = "nothing"
    /\ IdleParse
    /\ IdleClean
    /\ IdleAvail
    /\ IdleShape

\* The user changes a widget: its state is stored and a run begins.
Change ==
    /\ pc = "ui.idle"
    /\ \E w \in Changes :
          /\ clicked' = w
          /\ pokemon_select' = IF w.kind = "pokemon_select" THEN w.name
                               ELSE pokemon_select
          /\ roster_chk' = IF w.kind = "pokemon_select" THEN "unset"
                           ELSE IF w.kind = "roster_chk"
                           THEN (IF roster_chk = "True" THEN "False" ELSE "True")
                           ELSE roster_chk
          /\ selected_gen' = IF w.kind = "gen_select"
                             THEN CHOOSE g \in UiGens : g # selected_gen
                             ELSE selected_gen
          /\ show_descriptions' = IF w.kind = "show_descriptions"
                                  THEN ~show_descriptions ELSE show_descriptions
          /\ show_extended_desc' = IF w.kind = "show_extended_desc"
                                   THEN ~show_extended_desc ELSE show_extended_desc
    /\ fetches' = 0
    /\ pc' = "ui.sidebar"
    /\ UNCHANGED <<roster, loading, roster_lookup, response, document, result,
                   displayed, shown, pokeapi, parsed, cleanVars, availVars,
                   shapeVars>>

\* st.rerun(): the run ends and the script starts again, no button pressed.
\* The state of a checkbox the ended run has not reached is kept or dropped.
Rerun ==
    /\ pc' = "ui.sidebar"
    /\ clicked' = NoClick

\* The sidebar: the two checkboxes, and the buttons of the roster.
Sidebar ==
    /\ pc = "ui.sidebar"
    /\ show_extended_desc' = (show_descriptions /\ show_extended_desc)
    /\ IF clicked.kind = "rr" /\ ~loading
       THEN /\ roster' = RosterWithout(clicked.name)
            /\ roster_lookup' = roster_lookup
            /\ roster_chk' \in {roster_chk, "unset"}
            /\ Rerun
       ELSE IF clicked.kind = "rl" /\ ~loading
       THEN /\ roster_lookup' = clicked.name
            /\ roster' = roster
            /\ roster_chk' \in {roster_chk, "unset"}
            /\ Rerun
       ELSE /\ pc' = "ui.controls"
            /\ UNCHANGED <<roster, roster_lookup, roster_chk, clicked>>
    /\ UNCHANGED <<loading, pokemon_select, fetches, show_descriptions, pokeapi,
                   parsed, fetchVars, cleanVars, availVars, shapeVars>>

\* The drop-down of the creature after a lookup from the roster.
Selected ==
    IF roster_lookup # "" /\ (\E i \in 1..Len(all_names) : all_names[i] = roster_lookup)
    THEN roster_lookup ELSE pokemon_select

\* roster_checked: the stored state of the checkbox of the creature, or
\* value=in_roster when it has none.
RosterChecked ==
    IF Selected # pokemon_select \/ roster_chk = "unset"
    THEN InRoster(Selected) ELSE roster_chk = "True"

\* The controls: the lookup of the roster, the drop-downs and the checkbox;
\* then loading is set and the call begins.
Controls ==
    /\ pc = "ui.controls"
    /\ roster_lookup' = ""
    /\ pokemon_select' = Selected
    /\ roster_chk' = (IF RosterChecked THEN "True" ELSE "False")
    /\ IF RosterChecked /\ ~InRoster(Selected)
       THEN /\ roster' = Append(roster, Selected)
            /\ Rerun
            /\ UNCHANGED <<loading, fetches, response, document, pokeapi>>
       ELSE IF ~RosterChecked /\ InRoster(Selected)
       THEN /\ roster' = RosterWithout(Selected)
            /\ Rerun
            /\ UNCHANGED <<loading, fetches, response, document, pokeapi>>
       ELSE /\ loading' = TRUE
            /\ fetches' = fetches + 1
            /\ response' \in {"200", "404"}
            /\ document' = LearnsetPage(Selected, selected_gen)
            /\ pokeapi' \in (IF show_descriptions THEN UiReplies ELSE {NoReply})
            /\ pc' = "ui.fetch"
            /\ UNCHANGED <<roster, clicked>>
    /\ UNCHANGED <<selected_gen, result, displayed, shown, show_descriptions,
                   show_extended_desc, parsed, cleanVars, availVars, shapeVars>>

\* The call returns and loading is cleared; an exception of the call ends
\* the run before that.
UiFetch ==
    /\ pc = "ui.fetch"
    /\ result' = fetch_learnset_multi_game(response, document, selected_gen)
    /\ loading' = (result'.branch = "raise")
    /\ pc' = "ui.idle"
    /\ UNCHANGED <<roster, roster_lookup, pokemon_select, roster_chk, clicked,
                   fetches, response, document, selected_gen, displayed, shown,
                   parseVars, cleanVars, availVars, shapeVars>>

NextUi == Change \/ Sidebar \/ Controls \/ UiFetch

SpecUi == InitUi /\ [][NextUi]_vars

-----------------------------------------------------------------------------
(* Properties of the runs of the script                                    *)

\* A click on a button of the roster that the sidebar handles while loading
\* is true changes neither the roster nor the selection.
BlockedClick ==
    pc = "ui.sidebar" /\ loading /\ clicked.kind \in {"rl", "rr"} =>
        /\ roster' = roster
        /\ roster_lookup' = roster_lookup
        /\ pokemon_select' = pokemon_select

\* C19: when the run for a change has ended, fetch_learnset_multi_game has
\* been called exactly once since the change; loading is true exactly while
\* the call runs, and false once the run has ended; a click on a button of
\* the roster handled while loading is true changes neither the roster nor
\* the selection.
C19_OneCyclePerInteraction ==
    /\ [](pc = "ui.idle" => fetches = 1)
    /\ [](loading <=> pc = "ui.fetch")
    /\ [][BlockedClick]_vars

-----------------------------------------------------------------------------
(* Scenario: one run for a page with anchors in containers                 *)
(*                                                                         *)
(* The anchor of a section is the span of a heading, a span of a div that  *)
(* holds tables before and after it, or a span of the body.                *)

\* Most blocks of a page.
MaxLocateBlocks == 3

LocateGens == {1, 2}

\* A div that holds a table, the anchor of the TM section and a table.
DivSection ==
    << Node("div", <<>>, <<>>, 0, EmptyTable),
       Node("table", <<>>, <<>>, 1, MixedTmTable),
       Node("span", TmId, ByTMHM, 1, EmptyTable),
       Node("table", <<>>, <<>>, 1, TmTable) >>

\* The anchor of the level-up section as a span of the body.
BareAnchor == << Node("span", LevelupId, ByLevelingUp, 0, EmptyTable) >>

LocateBlocks ==
    { TableOf(GrowlTable),
      Paragraph(<<"T", "r", "i", "v", "i", "a">>),
      Section("h4", LevelupId, ByLevelingUp, <<>>, LevelupTable),
      Section("h4", TmId, ByTMHM, <<>>, TmTable),
      DivSection,
      BareAnchor }

LocatePages ==
    {PageOf(blocks, 0) : blocks \in SeqsUpTo(LocateBlocks, MaxLocateBlocks)}

InitLocate ==
    /\ pc = "fetch.start"
    /\ selected_gen \in LocateGens
    /\ response = "200"
    /\ document \in LocatePages
    /\ result = NoResult
    /\ displayed = PyNone
    /\ shown = "nothing"
    /\ IdleClean
    /\ IdleAvail
    /\ IdleShape
    /\ IdleParse
    /\ IdleUi

SpecLocate == InitLocate /\ [][NextFetch]_vars

\* The anchor of the k-th section key on the page, or NoNode.
AnchorOf(k) ==
    _find_section_anchor(document, SECTION_KEYS[k].label, SECTION_KEYS[k].anchor_id)

\* C21: the table found for the anchor of a section comes after the anchor
\* in document order, also when the climb from the anchor ends at a
\* container that holds a table before the anchor.
C21_TableAfterAnchor ==
    pc # "fetch.start" =>
        \A k \in 1..Len(SECTION_KEYS) :
            AnchorOf(k) # NoNode /\ LocatedTable(k) # NoNode =>
                LocatedTable(k) > AnchorOf(k)

-----------------------------------------------------------------------------
(* Properties of the run for one section: the table of a game and the      *)
(* shared table                                                            *)

\* The position of the shared table of the section.
SharedAt == DictGet(SectionGameTables, Shared)

\* C22: when the span of a section of a generation 8 page holds a shared
\* table, the bucket of each detected game shows under the label of the
\* section the section of the game's own table where the span holds one,
\* whichever of the two tables comes first, and that of the shared table
\* otherwise.
C22_GameTableFirst ==
    HasReturned /\ selected_gen = 8 /\ HasKey(SectionGameTables, Shared) =>
        \A i \in 1..Len(GEN8_GAMES) :
            BucketShows(GEN8_GAMES[i], TableFor(GEN8_GAMES[i], SharedAt))

====
